---- MODULE Spec2Model ----
(***************************************************************************)
(* AuthBridge go-processor (AuthBridge/AuthProxy/go-processor/main.go):    *)
(* the gRPC external-processing Filter.  One stream of ProcessingRequest   *)
(* messages is answered message by message; the process-wide state is the  *)
(* Exchange Config Snapshot (globalConfig), the inbound policy and the     *)
(* JWKS cache.                                                             *)
(*                                                                         *)
(* AuthBridge/AuthProxy init-iptables.sh: the Interceptor, a script that   *)
(* installs the redirect rules of a pod's network namespace next to the    *)
(* rules of a peer service mesh.  It is a separate program with its own    *)
(* specification (SpecInterceptor); each specification holds the other     *)
(* program's variables still.                                              *)
(*                                                                         *)
(* go-processor/internal/resolver: the StaticResolver, a route table that  *)
(* maps a destination host to a target configuration (SpecResolver).       *)
(*                                                                         *)
(* Strings the code inspects character by character (header names, header  *)
(* values, URLs) are sequences of one-character strings; a compact JWT is  *)
(* one opaque element of such a sequence.  Strings the code only compares  *)
(* or tests for emptiness are TLA+ strings.                                *)
(***************************************************************************)
EXTENDS Integers, Sequences, FiniteSets, TLC

VARIABLES
    globalConfig,      \* Config: the five exchange parameters
    jwksCache,         \* *jwk.Cache: nil-ness, registered URLs, cached key
    inboundJWKSURL,    \* derived JWKS URL
    inboundIssuer,     \* ISSUER
    expectedAudience,  \* EXPECTED_AUDIENCE
    idpKey,            \* the identity provider's current signing key
    pc,                \* position of Process: "idle", "sent", "crashed"
    req,               \* the ProcessingRequest of this loop iteration
    resp,              \* the ProcessingResponse sent for it
    handler,           \* which handler Process dispatched to
    fetch,             \* what jwksCache.Get did during this iteration
    exchange,          \* what exchangeToken did during this iteration
    received,          \* number of stream.Recv() calls that returned a request
    sent,              \* the stream.Send() calls, in order
    scriptEnv,         \* the Interceptor's environment variables
    nat,               \* iptables nat table: chain name -> rules
    mangle,            \* iptables mangle table: chain name -> rules
    route_localnet,    \* net.ipv4.conf.all.route_localnet
    line,              \* position of the Interceptor script
    runs,              \* number of times the script was started
    peer,              \* the parent chains the peer mesh has appended to
    pkt,               \* a packet traversing the nat hook
    verdict,           \* what the hooks did with it
    firstRun,          \* the Interceptor's rules as its first run left them
    configPath,        \* the file at the path given to NewStaticResolver
    resolver,          \* the StaticResolver NewStaticResolver returned
    host,              \* the host handed to Resolve
    resolved,          \* what Resolve returned: (*TargetConfig, error)
    evaluator,         \* PrecedenceEvaluator: feature gates and platform config
    workload,          \* the arguments of the last Evaluate or InjectAuthBridge
    decision,          \* the InjectionDecision Evaluate returned
    podSpec,           \* the PodSpec InjectAuthBridge mutates
    mutation,          \* how often InjectAuthBridge ran on it, and its return
    ctx,               \* per stream: the stream context, "open" or "cancelled"
    task,              \* per stream: where the goroutine of Process stands
    call,              \* per stream: the HTTP call made for it to the IdP
    replies,           \* per stream: number of responses sent
    mu,                \* globalConfig.mu: the writer and the readers holding it
    shared,            \* the five fields of globalConfig, as stored
    loadPc,            \* loadConfig: number of fields written under the lock
    getters,           \* the callers of getConfig: position and copy
    published,         \* the five fields as they stood at each Unlock
    configFile,        \* the platform config file ConfigLoader reads
    debounceTimer,     \* the watcher's debounce timer
    loads,             \* the Load calls that have read the file, not yet stored
    currentConfig      \* ConfigLoader.currentConfig

vars == <<globalConfig, jwksCache, inboundJWKSURL, inboundIssuer,
          expectedAudience, idpKey, pc, req, resp, handler, fetch, exchange>>

streamVars == <<received, sent>>

netVars == <<scriptEnv, nat, mangle, route_localnet, line, runs, peer, pkt,
             verdict, firstRun>>

resolverVars == <<configPath, resolver, host, resolved>>

injectorVars == <<evaluator, workload, decision, podSpec, mutation>>

\* the variables of the programs that follow the Resolver
callVars == <<ctx, task, call, replies>>

snapshotVars == <<mu, shared, loadPc, getters, published>>

loaderVars == <<configFile, debounceTimer, loads, currentConfig>>

restVars == <<injectorVars, callVars, snapshotVars, loaderVars>>

\* the stream's history is not recorded
StreamUnrecorded == received = 0 /\ sent = <<>>

\* no Interceptor in sight
InterceptorAbsent ==
    /\ scriptEnv = <<>>
    /\ nat = <<>>
    /\ mangle = <<>>
    /\ route_localnet = 0
    /\ line = "absent"
    /\ runs = 0
    /\ peer = {}
    /\ pkt = <<>>
    /\ verdict = <<>>
    /\ firstRun = <<>>

\* no webhook injector in sight
InjectorAbsent ==
    /\ evaluator = <<>>
    /\ workload = <<>>
    /\ decision = <<>>
    /\ podSpec = <<>>
    /\ mutation = <<>>

\* no stream with calls in flight
CallsAbsent == ctx = <<>> /\ task = <<>> /\ call = <<>> /\ replies = <<>>

\* no contention on globalConfig.mu
SnapshotAbsent ==
    mu = <<>> /\ shared = <<>> /\ loadPc = 0 /\ getters = <<>> /\ published = {}

\* no ConfigLoader in sight
LoaderAbsent ==
    configFile = <<>> /\ debounceTimer = "absent" /\ loads = {} /\ currentConfig = <<>>

RestAbsent == InjectorAbsent /\ CallsAbsent /\ SnapshotAbsent /\ LoaderAbsent

\* no Resolver in sight
ResolverAbsent ==
    /\ configPath = <<>>
    /\ resolver = <<>>
    /\ host = <<>>
    /\ resolved = <<>>

(***************************************************************************)
(* Bounds                                                                  *)
(***************************************************************************)
\* number of signing keys the identity provider goes through (key rotations)
MaxKeyGen == 2

\* number of requests received on the recorded stream
MaxMsgs == 3

\* number of times the Interceptor script is started
MaxRuns == 2

\* number of routes in the Resolver's configuration file
MaxRoutes == 2

\* number of times InjectAuthBridge is applied to one pod spec
MaxApplications == 3

\* number of loadConfig calls and of concurrent callers of getConfig
MaxLoads == 2
MaxGetters == 2

\* number of streams one Filter process serves at a time
MaxStreams == 2

\* number of changes of the platform config file
MaxChanges == 3

(***************************************************************************)
(* Go strings package                                                      *)
(***************************************************************************)
UpperChars == <<"A", "B", "C", "D", "E", "F", "G", "H", "I", "J", "K", "L", "M",
                "N", "O", "P", "Q", "R", "S", "T", "U", "V", "W", "X", "Y", "Z">>
LowerChars == <<"a", "b", "c", "d", "e", "f", "g", "h", "i", "j", "k", "l", "m",
                "n", "o", "p", "q", "r", "s", "t", "u", "v", "w", "x", "y", "z">>

\* the lower-case letter of each upper-case letter
UpperToLower ==
    [c \in {UpperChars[i] : i \in 1..Len(UpperChars)} |->
        LowerChars[CHOOSE i \in 1..Len(UpperChars) : UpperChars[i] = c]]

\* simple case folding of one character
FoldChar(c) == IF c \in DOMAIN UpperToLower THEN UpperToLower[c] ELSE c

\* strings.EqualFold
EqualFold(s, t) ==
    /\ Len(s) = Len(t)
    /\ \A i \in 1..Len(s) : FoldChar(s[i]) = FoldChar(t[i])

HasPrefix(s, prefix) ==
    /\ Len(s) >= Len(prefix)
    /\ SubSeq(s, 1, Len(prefix)) = prefix

HasSuffix(s, suffix) ==
    /\ Len(s) >= Len(suffix)
    /\ SubSeq(s, Len(s) - Len(suffix) + 1, Len(s)) = suffix

\* strings.TrimPrefix
TrimPrefix(s, prefix) ==
    IF HasPrefix(s, prefix) THEN SubSeq(s, Len(prefix) + 1, Len(s)) ELSE s

\* strings.TrimSuffix
TrimSuffix(s, suffix) ==
    IF HasSuffix(s, suffix) THEN SubSeq(s, 1, Len(s) - Len(suffix)) ELSE s

WhiteSpace == {" ", "\n", "\t", "\r"}

RECURSIVE TrimLeft(_)
TrimLeft(s) ==
    IF s # <<>> /\ Head(s) \in WhiteSpace THEN TrimLeft(Tail(s)) ELSE s

RECURSIVE TrimRight(_)
TrimRight(s) ==
    IF s # <<>> /\ s[Len(s)] \in WhiteSpace
    THEN TrimRight(SubSeq(s, 1, Len(s) - 1))
    ELSE s

\* strings.TrimSpace
TrimSpace(s) == TrimRight(TrimLeft(s))

(***************************************************************************)
(* String literals of the source                                           *)
(***************************************************************************)
DirectionHeader == <<"x", "-", "a", "u", "t", "h", "b", "r", "i", "d", "g", "e",
                     "-", "d", "i", "r", "e", "c", "t", "i", "o", "n">>
AuthorizationHeader == <<"a", "u", "t", "h", "o", "r", "i", "z", "a", "t", "i", "o", "n">>
BearerPrefix == <<"B", "e", "a", "r", "e", "r", " ">>
bearerPrefix == <<"b", "e", "a", "r", "e", "r", " ">>
InboundValue == <<"i", "n", "b", "o", "u", "n", "d">>
TokenSuffix == <<"/", "t", "o", "k", "e", "n">>
CertsSuffix == <<"/", "c", "e", "r", "t", "s">>

StatusOK == 200
StatusUnauthorized == 401

(***************************************************************************)
(* Startup: environment, credential files, main                            *)
(***************************************************************************)
IssA == "https://kc.example/realms/demo"
IssB == "https://other.example/realms/foo"
AudA == "svc-A"
AudB == "svc-B"

\* a credential file: unreadable, or readable with some content
NoFile == [readable |-> FALSE, content |-> <<>>]
Files(v) == {NoFile,
             [readable |-> TRUE, content |-> <<>>],
             [readable |-> TRUE, content |-> <<"\n">>],
             [readable |-> TRUE, content |-> <<v, "\n">>]}

TokenURLs == {<<>>,
              <<"http://kc/realms/demo/protocol/openid-connect">> \o TokenSuffix,
              <<"http://kc/realms/demo", "/", "t", "o", "k">>}

\* the process environment and the shared volume at startup
Envs ==
    [TOKEN_URL : TokenURLs,
     TARGET_AUDIENCE : {"", AudB},
     TARGET_SCOPES : {"", "openid svc-B-aud"},
     CLIENT_ID : {<<>>, <<"svc-A">>},
     CLIENT_SECRET : {<<>>, <<"S">>},
     clientIDFile : Files("svc-A"),
     clientSecretFile : Files("S"),
     ISSUER : {"", IssA},
     EXPECTED_AUDIENCE : {"", AudA}]

\* readFileContent: [content, err]
readFileContent(file) ==
    IF ~file.readable
    THEN [content |-> <<>>, err |-> TRUE]
    ELSE [content |-> TrimSpace(file.content), err |-> FALSE]

\* the file's value when readable and non-empty, else the environment
\* variable when non-empty, else the field keeps its zero value
credential(file, envValue) ==
    LET f == readFileContent(file) IN
    IF ~f.err /\ f.content # <<>> THEN f.content
    ELSE IF envValue # <<>> THEN envValue
    ELSE <<>>

loadConfig(env) ==
    [ClientID |-> credential(env.clientIDFile, env.CLIENT_ID),
     ClientSecret |-> credential(env.clientSecretFile, env.CLIENT_SECRET),
     TokenURL |-> env.TOKEN_URL,
     TargetAudience |-> env.TARGET_AUDIENCE,
     TargetScopes |-> env.TARGET_SCOPES]

\* getConfig: a copy of the five fields
getConfig == globalConfig

deriveJWKSURL(tokenURL) == TrimSuffix(tokenURL, TokenSuffix) \o CertsSuffix

\* jwksCache before initJWKSCache ran
NilCache == [isNil |-> TRUE, registered |-> {}, keys |-> 0]

\* initJWKSCache leaving jwksCache nil when Register fails
initJWKSCache_NilOnRegisterFailure(jwksURL, registerOK) ==
    IF registerOK
    THEN [isNil |-> FALSE, registered |-> {jwksURL}, keys |-> 0]
    ELSE NilCache

\* initJWKSCache: the cache is created whether or not Register succeeds
initJWKSCache(jwksURL, registerOK) ==
    [isNil |-> FALSE,
     registered |-> IF registerOK THEN {jwksURL} ELSE {},
     keys |-> 0]

NoReq == [type |-> "none", hasHeaders |-> FALSE, headers |-> <<>>]
NoResp == [kind |-> "none", status |-> 0, body |-> <<>>, details |-> "",
           setHeaders |-> <<>>, removeHeaders |-> <<>>]
NoFetch == [attempted |-> FALSE, err |-> <<>>, keys |-> {}]
NoForm == [client_id |-> <<>>, client_secret |-> <<>>, grant_type |-> "",
           requested_token_type |-> "", subject_token |-> <<>>,
           subject_token_type |-> "", audience |-> "", scope |-> ""]
NoExchange == [attempted |-> FALSE, tokenURL |-> <<>>, form |-> NoForm,
               reply |-> [kind |-> "none", status |-> 0,
                          body |-> [syntax |-> "none", field |-> "absent", value |-> <<>>]],
               newToken |-> <<>>, err |-> FALSE]

\* main, up to grpcServer.Serve
Init ==
    \E env \in Envs, registerOK \in BOOLEAN :
        LET cfg == loadConfig(env)
            configured == cfg.TokenURL # <<>> /\ env.ISSUER # ""
        IN
        /\ globalConfig = cfg
        /\ inboundIssuer = env.ISSUER
        /\ expectedAudience = env.EXPECTED_AUDIENCE
        /\ inboundJWKSURL = IF configured THEN deriveJWKSURL(cfg.TokenURL) ELSE <<>>
        /\ jwksCache = IF configured
                       THEN initJWKSCache(deriveJWKSURL(cfg.TokenURL), registerOK)
                       ELSE NilCache
        /\ idpKey = 1
        /\ pc = "idle"
        /\ req = NoReq
        /\ resp = NoResp
        /\ handler = "none"
        /\ fetch = NoFetch
        /\ exchange = NoExchange
        /\ StreamUnrecorded
        /\ InterceptorAbsent
        /\ ResolverAbsent
        /\ RestAbsent

(***************************************************************************)
(* Tokens, keys and the JWKS cache                                         *)
(***************************************************************************)
\* Compact JWTs, by the claims they decode to.  signer is the key that made
\* the signature (1, 2, ... are the identity provider's keys in rotation
\* order, 0 is a key the identity provider never published), timeValid says
\* whether exp/nbf/iat hold now.
JWTs ==
    {[raw |-> "jwt.ok", signer |-> 1, iss |-> IssA, aud |-> <<AudA>>, timeValid |-> TRUE],
     [raw |-> "jwt.rotated", signer |-> 2, iss |-> IssA, aud |-> <<AudA>>, timeValid |-> TRUE],
     [raw |-> "jwt.multiaud", signer |-> 1, iss |-> IssA, aud |-> <<AudB, AudA>>, timeValid |-> TRUE],
     [raw |-> "jwt.noaud", signer |-> 1, iss |-> IssA, aud |-> <<>>, timeValid |-> TRUE],
     [raw |-> "jwt.wrongaud", signer |-> 1, iss |-> IssA, aud |-> <<AudB>>, timeValid |-> TRUE],
     [raw |-> "jwt.wrongiss", signer |-> 1, iss |-> IssB, aud |-> <<AudA>>, timeValid |-> TRUE],
     [raw |-> "jwt.noiss", signer |-> 1, iss |-> "", aud |-> <<AudA>>, timeValid |-> TRUE],
     [raw |-> "jwt.expired", signer |-> 1, iss |-> IssA, aud |-> <<AudA>>, timeValid |-> FALSE],
     [raw |-> "jwt.forged", signer |-> 0, iss |-> IssA, aud |-> <<AudA>>, timeValid |-> TRUE]}

IsJWT(tokenString) ==
    /\ Len(tokenString) = 1
    /\ \E t \in JWTs : t.raw = tokenString[1]

Decode(tokenString) == CHOOSE t \in JWTs : t.raw = tokenString[1]

\* Error texts of the key cache and of the token parser.  A text is a
\* sequence of chunks in which the double quote is always a chunk of its own.
Quote == "\""

\* fmt.Errorf(`url %q is not registered ...`, u)
ErrNotRegistered(u) == <<"url ", Quote>> \o u \o <<Quote, " is not registered">>

ErrFetchFailed == <<"failed to fetch">>

ErrInvalidJWT == <<"invalid JWT">>

ErrVerifyFailed == <<"could not verify message using any of the signatures or keys">>

\* the validation error of an expired token: `"exp" not satisfied`
ErrTokenExpired == <<Quote, "exp", Quote, " not satisfied">>

\* jwksCache.Get(ctx, jwksURL): an unregistered URL is an error; the first
\* Get of a URL fetches the key set and fails when the fetch fails; later
\* Gets answer from the cache.  [err, keys, cache]
jwksGet(cache, jwksURL, reachable) ==
    IF jwksURL \notin cache.registered
    THEN [err |-> ErrNotRegistered(jwksURL), keys |-> {}, cache |-> cache]
    ELSE IF cache.keys = 0
    THEN IF reachable
         THEN [err |-> <<>>, keys |-> {idpKey}, cache |-> [cache EXCEPT !.keys = idpKey]]
         ELSE [err |-> ErrFetchFailed, keys |-> {}, cache |-> cache]
    ELSE [err |-> <<>>, keys |-> {cache.keys}, cache |-> cache]

\* jwt.Parse that decodes the token without verifying its signature
jwtParse_NoSignatureCheck(tokenString, keySet) ==
    IF ~IsJWT(tokenString)
    THEN [err |-> ErrInvalidJWT, token |-> [iss |-> "", aud |-> <<>>]]
    ELSE LET t == Decode(tokenString) IN
         IF ~t.timeValid
         THEN [err |-> ErrTokenExpired, token |-> [iss |-> "", aud |-> <<>>]]
         ELSE [err |-> <<>>, token |-> [iss |-> t.iss, aud |-> t.aud]]

\* jwt.Parse(token, WithKeySet(keySet), WithValidate(true)): [err, token]
jwtParse(tokenString, keySet) ==
    IF ~IsJWT(tokenString)
    THEN [err |-> ErrInvalidJWT, token |-> [iss |-> "", aud |-> <<>>]]
    ELSE LET t == Decode(tokenString) IN
         IF t.signer \notin keySet
         THEN [err |-> ErrVerifyFailed,
               token |-> [iss |-> "", aud |-> <<>>]]
         ELSE IF ~t.timeValid
         THEN [err |-> ErrTokenExpired, token |-> [iss |-> "", aud |-> <<>>]]
         ELSE [err |-> <<>>, token |-> [iss |-> t.iss, aud |-> t.aud]]

\* a validation that looks for the expected audience even when it is empty
validateInboundJWT_AudienceAlwaysChecked(tokenString, jwksURL, expectedIssuer, reachable) ==
    IF jwksCache.isNil
    THEN [err |-> <<"JWKS cache not initialized">>, cache |-> jwksCache, fetch |-> NoFetch]
    ELSE
    LET got == jwksGet(jwksCache, jwksURL, reachable)
        tried == [attempted |-> TRUE, err |-> got.err, keys |-> got.keys]
    IN
    IF got.err # <<>>
    THEN [err |-> <<"failed to fetch JWKS: ">> \o got.err, cache |-> got.cache, fetch |-> tried]
    ELSE
    LET parsed == jwtParse(tokenString, got.keys) IN
    IF parsed.err # <<>>
    THEN [err |-> <<"failed to parse/validate token: ">> \o parsed.err,
          cache |-> got.cache, fetch |-> tried]
    ELSE IF parsed.token.iss # expectedIssuer
    THEN [err |-> <<"invalid issuer: expected ", expectedIssuer, ", got ", parsed.token.iss>>,
          cache |-> got.cache, fetch |-> tried]
    ELSE IF ~\E i \in 1..Len(parsed.token.aud) : parsed.token.aud[i] = expectedAudience
    THEN [err |-> <<"invalid audience: expected ", expectedAudience>>,
          cache |-> got.cache, fetch |-> tried]
    ELSE [err |-> <<>>, cache |-> got.cache, fetch |-> tried]

\* validateInboundJWT: [err, cache, fetch]; err is <<>> for nil
validateInboundJWT(tokenString, jwksURL, expectedIssuer, reachable) ==
    IF jwksCache.isNil
    THEN [err |-> <<"JWKS cache not initialized">>, cache |-> jwksCache, fetch |-> NoFetch]
    ELSE
    LET got == jwksGet(jwksCache, jwksURL, reachable)
        tried == [attempted |-> TRUE, err |-> got.err, keys |-> got.keys]
    IN
    IF got.err # <<>>
    THEN [err |-> <<"failed to fetch JWKS: ">> \o got.err, cache |-> got.cache, fetch |-> tried]
    ELSE
    LET parsed == jwtParse(tokenString, got.keys) IN
    IF parsed.err # <<>>
    THEN [err |-> <<"failed to parse/validate token: ">> \o parsed.err,
          cache |-> got.cache, fetch |-> tried]
    ELSE IF parsed.token.iss # expectedIssuer
    THEN [err |-> <<"invalid issuer: expected ", expectedIssuer, ", got ", parsed.token.iss>>,
          cache |-> got.cache, fetch |-> tried]
    ELSE IF /\ expectedAudience # ""
            /\ ~\E i \in 1..Len(parsed.token.aud) : parsed.token.aud[i] = expectedAudience
    THEN [err |-> <<"invalid audience: expected ", expectedAudience>>,
          cache |-> got.cache, fetch |-> tried]
    ELSE [err |-> <<>>, cache |-> got.cache, fetch |-> tried]

(***************************************************************************)
(* Responses                                                               *)
(***************************************************************************)
\* fmt.Sprintf(`{"error":"unauthorized","message":"%s"}`, message): the text
\* before and after the %s verb
DenyBodyPrefix ==
    <<"{", Quote, "error", Quote, ":", Quote, "unauthorized", Quote, ",",
      Quote, "message", Quote, ":", Quote>>

DenyBodySuffix == <<Quote, "}">>

\* denyRequest answering 403 Forbidden
denyRequest_Forbidden(message) ==
    [kind |-> "ImmediateResponse",
     status |-> 403,
     body |-> DenyBodyPrefix \o message \o DenyBodySuffix,
     details |-> "jwt_validation_failed",
     setHeaders |-> <<>>,
     removeHeaders |-> <<>>]

\* denyRequest: an ImmediateResponse with status 401
denyRequest(message) ==
    [kind |-> "ImmediateResponse",
     status |-> StatusUnauthorized,
     body |-> DenyBodyPrefix \o message \o DenyBodySuffix,
     details |-> "jwt_validation_failed",
     setHeaders |-> <<>>,
     removeHeaders |-> <<>>]

\* handleInbound's answer when inbound validation is not configured:
\* ProcessingResponse_RequestHeaders{RequestHeaders: &HeadersResponse{}}
InboundSkipResponse ==
    [kind |-> "RequestHeaders", status |-> 0, body |-> <<>>, details |-> "",
     setHeaders |-> <<>>, removeHeaders |-> <<>>]

\* a final return that denies instead of passing through
OutboundPassthroughResponse_Deny ==
    [kind |-> "ImmediateResponse",
     status |-> StatusUnauthorized,
     body |-> DenyBodyPrefix \o <<"token exchange failed">> \o DenyBodySuffix,
     details |-> "token_exchange_failed",
     setHeaders |-> <<>>,
     removeHeaders |-> <<>>]

\* handleOutbound's final return:
\* ProcessingResponse_RequestHeaders{RequestHeaders: &HeadersResponse{}}
OutboundPassthroughResponse ==
    [kind |-> "RequestHeaders", status |-> 0, body |-> <<>>, details |-> "",
     setHeaders |-> <<>>, removeHeaders |-> <<>>]

\* ProcessingResponse_ResponseHeaders{ResponseHeaders: &HeadersResponse{}}
EmptyResponseHeadersResponse ==
    [kind |-> "ResponseHeaders", status |-> 0, body |-> <<>>, details |-> "",
     setHeaders |-> <<>>, removeHeaders |-> <<>>]

\* &v3.ProcessingResponse{}: no Response set
EmptyProcessingResponse ==
    [kind |-> "unset", status |-> 0, body |-> <<>>, details |-> "",
     setHeaders |-> <<>>, removeHeaders |-> <<>>]

\* getHeaderValue comparing keys with ==
RECURSIVE getHeaderValue_CaseSensitive(_, _)
getHeaderValue_CaseSensitive(headers, key) ==
    IF headers = <<>> THEN <<>>
    ELSE IF Head(headers).Key = key THEN Head(headers).RawValue
    ELSE getHeaderValue_CaseSensitive(Tail(headers), key)

\* getHeaderValue: the RawValue of the first header whose key matches
\* case-insensitively, "" when none does
RECURSIVE getHeaderValue(_, _)
getHeaderValue(headers, key) ==
    IF headers = <<>> THEN <<>>
    ELSE IF EqualFold(Head(headers).Key, key) THEN Head(headers).RawValue
    ELSE getHeaderValue(Tail(headers), key)

(***************************************************************************)
(* Inbound validation                                                      *)
(***************************************************************************)
\* an admit response that also strips the caller's Authorization header
RemoveDirectionResponse_AndAuthorization ==
    [kind |-> "RequestHeaders", status |-> 0, body |-> <<>>, details |-> "",
     setHeaders |-> <<>>, removeHeaders |-> <<DirectionHeader, AuthorizationHeader>>]

\* HeaderMutation{RemoveHeaders: []string{"x-authbridge-direction"}}
RemoveDirectionResponse ==
    [kind |-> "RequestHeaders", status |-> 0, body |-> <<>>, details |-> "",
     setHeaders |-> <<>>, removeHeaders |-> <<DirectionHeader>>]

\* handleInbound: [resp, cache, fetch]
handleInbound(headers, reachable) ==
    IF jwksCache.isNil \/ inboundIssuer = ""
    THEN [resp |-> InboundSkipResponse, cache |-> jwksCache, fetch |-> NoFetch]
    ELSE
    LET authHeader == getHeaderValue(headers, AuthorizationHeader) IN
    IF authHeader = <<>>
    THEN [resp |-> denyRequest(<<"missing Authorization header">>),
          cache |-> jwksCache, fetch |-> NoFetch]
    ELSE
    LET tokenString == TrimPrefix(TrimPrefix(authHeader, BearerPrefix), bearerPrefix) IN
    IF tokenString = authHeader
    THEN [resp |-> denyRequest(<<"invalid Authorization header format">>),
          cache |-> jwksCache, fetch |-> NoFetch]
    ELSE
    LET v == validateInboundJWT(tokenString, inboundJWKSURL, inboundIssuer, reachable) IN
    IF v.err # <<>>
    THEN [resp |-> denyRequest(<<"token validation failed: ">> \o v.err),
          cache |-> v.cache, fetch |-> v.fetch]
    ELSE [resp |-> RemoveDirectionResponse, cache |-> v.cache, fetch |-> v.fetch]

(***************************************************************************)
(* Outbound exchange                                                       *)
(***************************************************************************)
\* Response bodies of the token endpoint, as JSON documents
Bodies ==
    {[syntax |-> "invalid", field |-> "absent", value |-> <<>>],
     [syntax |-> "null", field |-> "absent", value |-> <<>>],
     [syntax |-> "array", field |-> "absent", value |-> <<>>],
     [syntax |-> "object", field |-> "absent", value |-> <<>>],
     [syntax |-> "object", field |-> "number", value |-> <<>>],
     [syntax |-> "object", field |-> "string", value |-> <<>>],
     [syntax |-> "object", field |-> "string", value |-> <<"jwt.exchanged">>]}

NoBody == [syntax |-> "none", field |-> "absent", value |-> <<>>]
NoReply == [kind |-> "none", status |-> 0, body |-> NoBody]

Statuses == {200, 201, 400, 401, 500}

\* What http.PostForm and io.ReadAll can come back with
Replies ==
    {[kind |-> "neterr", status |-> 0, body |-> NoBody]}
    \cup {[kind |-> "readerr", status |-> 200, body |-> NoBody]}
    \cup {[kind |-> "response", status |-> st, body |-> b] : st \in Statuses, b \in Bodies}

\* json.Unmarshal(body, &tokenResp): [err, AccessToken]
jsonUnmarshal(body) ==
    IF body.syntax = "invalid" \/ body.syntax = "array"
    THEN [err |-> TRUE, AccessToken |-> <<>>]
    ELSE IF body.syntax = "null"
    THEN [err |-> FALSE, AccessToken |-> <<>>]
    ELSE IF body.field = "number"
    THEN [err |-> TRUE, AccessToken |-> <<>>]
    ELSE IF body.field = "string"
    THEN [err |-> FALSE, AccessToken |-> body.value]
    ELSE [err |-> FALSE, AccessToken |-> <<>>]

\* the form exchangeToken posts
exchangeForm(clientID, clientSecret, subjectToken, audience, scopes) ==
    [client_id |-> clientID,
     client_secret |-> clientSecret,
     grant_type |-> "urn:ietf:params:oauth:grant-type:token-exchange",
     requested_token_type |-> "urn:ietf:params:oauth:token-type:access_token",
     subject_token |-> subjectToken,
     subject_token_type |-> "urn:ietf:params:oauth:token-type:access_token",
     audience |-> audience,
     scope |-> scopes]

\* exchangeToken without the status check
exchangeToken_IgnoreStatus(clientID, clientSecret, tokenURL, subjectToken, audience, scopes, reply) ==
    IF reply.kind = "neterr" THEN [token |-> <<>>, err |-> TRUE]
    ELSE IF reply.kind = "readerr" THEN [token |-> <<>>, err |-> TRUE]
    ELSE LET tokenResp == jsonUnmarshal(reply.body) IN
         IF tokenResp.err THEN [token |-> <<>>, err |-> TRUE]
         ELSE [token |-> tokenResp.AccessToken, err |-> FALSE]

\* exchangeToken: [token, err], given the token endpoint's reply
exchangeToken(clientID, clientSecret, tokenURL, subjectToken, audience, scopes, reply) ==
    IF reply.kind = "neterr" THEN [token |-> <<>>, err |-> TRUE]
    ELSE IF reply.kind = "readerr" THEN [token |-> <<>>, err |-> TRUE]
    ELSE IF reply.status # StatusOK THEN [token |-> <<>>, err |-> TRUE]
    ELSE LET tokenResp == jsonUnmarshal(reply.body) IN
         IF tokenResp.err THEN [token |-> <<>>, err |-> TRUE]
         ELSE [token |-> tokenResp.AccessToken, err |-> FALSE]

\* HeaderMutation{SetHeaders: authorization = "Bearer " + newToken}
SetAuthorizationResponse(newToken) ==
    [kind |-> "RequestHeaders", status |-> 0, body |-> <<>>, details |-> "",
     setHeaders |-> <<[Key |-> AuthorizationHeader, RawValue |-> BearerPrefix \o newToken]>>,
     removeHeaders |-> <<>>]

\* a completeness test that forgets the scopes
configComplete_ScopesOptional(clientID, clientSecret, tokenURL, targetAudience, targetScopes) ==
    /\ clientID # <<>>
    /\ clientSecret # <<>>
    /\ tokenURL # <<>>
    /\ targetAudience # ""

\* the test that all five exchange parameters are present
configComplete(clientID, clientSecret, tokenURL, targetAudience, targetScopes) ==
    /\ clientID # <<>>
    /\ clientSecret # <<>>
    /\ tokenURL # <<>>
    /\ targetAudience # ""
    /\ targetScopes # ""

\* handleOutbound: [resp, exchange]
handleOutbound(headers, reply) ==
    LET cfg == getConfig IN
    IF configComplete(cfg.ClientID, cfg.ClientSecret, cfg.TokenURL,
                      cfg.TargetAudience, cfg.TargetScopes)
    THEN
        LET authHeader == getHeaderValue(headers, AuthorizationHeader) IN
        IF authHeader # <<>>
        THEN
            LET subjectToken == TrimPrefix(TrimPrefix(authHeader, BearerPrefix), bearerPrefix) IN
            IF subjectToken # authHeader
            THEN
                LET r == exchangeToken(cfg.ClientID, cfg.ClientSecret, cfg.TokenURL,
                                       subjectToken, cfg.TargetAudience, cfg.TargetScopes, reply)
                    done == [attempted |-> TRUE,
                             tokenURL |-> cfg.TokenURL,
                             form |-> exchangeForm(cfg.ClientID, cfg.ClientSecret, subjectToken,
                                                   cfg.TargetAudience, cfg.TargetScopes),
                             reply |-> reply,
                             newToken |-> r.token,
                             err |-> r.err]
                IN
                IF ~r.err
                THEN [resp |-> SetAuthorizationResponse(r.token), exchange |-> done]
                ELSE [resp |-> OutboundPassthroughResponse, exchange |-> done]
            ELSE [resp |-> OutboundPassthroughResponse, exchange |-> NoExchange]
        ELSE [resp |-> OutboundPassthroughResponse, exchange |-> NoExchange]
    ELSE [resp |-> OutboundPassthroughResponse, exchange |-> NoExchange]

(***************************************************************************)
(* The messages a stream can carry                                         *)
(***************************************************************************)
Header(key, value) == [Key |-> key, RawValue |-> value]

DirectionHeaderCaps == <<"X", "-", "A", "u", "t", "h", "B", "r", "i", "d", "g", "e",
                         "-", "D", "i", "r", "e", "c", "t", "i", "o", "n">>
AuthorizationHeaderCaps == <<"A", "u", "t", "h", "o", "r", "i", "z", "a", "t", "i", "o", "n">>
BEARERPrefix == <<"B", "E", "A", "R", "E", "R", " ">>
BasicPrefix == <<"B", "a", "s", "i", "c", " ">>

\* what the proxy's listeners put in front of the Filter as direction marker
DirectionOptions ==
    {<<>>,
     <<Header(DirectionHeader, InboundValue)>>,
     <<Header(DirectionHeaderCaps, InboundValue)>>,
     <<Header(DirectionHeader, <<"o", "u", "t", "b", "o", "u", "n", "d">>)>>,
     <<Header(DirectionHeader, <<"I", "N", "B", "O", "U", "N", "D">>)>>,
     <<Header(DirectionHeader, <<"i", "n", "b", "o", "u", "n", "d", " ">>)>>,
     <<Header(DirectionHeader, <<>>)>>}

AuthValues ==
    {BearerPrefix \o <<t.raw>> : t \in JWTs}
    \cup {<<>>,
          BearerPrefix,
          bearerPrefix \o <<"jwt.ok">>,
          BEARERPrefix \o <<"jwt.ok">>,
          BasicPrefix \o <<"jwt.ok">>,
          <<"jwt.ok">>,
          BearerPrefix \o <<"n", "o", "t", "j", "w", "t">>,
          BearerPrefix \o bearerPrefix \o <<"jwt.ok">>,
          bearerPrefix \o BearerPrefix \o <<"jwt.ok">>}

AuthOptions ==
    {<<>>}
    \cup {<<Header(AuthorizationHeader, v)>> : v \in AuthValues}
    \cup {<<Header(AuthorizationHeaderCaps, BearerPrefix \o <<"jwt.ok">>)>>,
          <<Header(AuthorizationHeader, BasicPrefix \o <<"jwt.ok">>),
            Header(AuthorizationHeader, BearerPrefix \o <<"jwt.ok">>)>>,
          <<Header(AuthorizationHeader, BearerPrefix \o <<"jwt.ok">>),
            Header(AuthorizationHeader, BearerPrefix \o <<"jwt.forged">>)>>}

HostHeader ==
    Header(<<"h", "o", "s", "t">>, <<"api", ".", "internal", ":", "8443">>)

HeaderMaps ==
    {<<HostHeader>> \o d \o a : d \in DirectionOptions, a \in AuthOptions}
    \cup {a \o <<Header(DirectionHeader, InboundValue), HostHeader>> :
             a \in {<<>>, <<Header(AuthorizationHeader, BearerPrefix \o <<"jwt.ok">>)>>}}
    \cup {d \o <<Header(AuthorizationHeader, BearerPrefix \o <<"jwt.ok">>)>> :
             d \in {<<Header(DirectionHeader, <<"o", "u", "t", "b", "o", "u", "n", "d">>),
                      Header(DirectionHeader, InboundValue)>>,
                    <<Header(DirectionHeader, InboundValue),
                      Header(DirectionHeader, <<"o", "u", "t", "b", "o", "u", "n", "d">>)>>}}

RequestHeadersMsg(headers) ==
    [type |-> "RequestHeaders", hasHeaders |-> TRUE, headers |-> headers]

\* a RequestHeaders message whose header map is absent
NilHeadersMsg == [type |-> "RequestHeaders", hasHeaders |-> FALSE, headers |-> <<>>]

OtherTypes == {"RequestBody", "ResponseBody", "RequestTrailers", "ResponseTrailers"}

(***************************************************************************)
(* Process: one iteration of the stream loop per action                    *)
(***************************************************************************)
policyVars == <<globalConfig, inboundJWKSURL, inboundIssuer, expectedAudience, idpKey>>

\* RequestHeaders carrying the marker value "inbound"
ProcessInbound ==
    /\ pc = "idle"
    /\ \E headers \in HeaderMaps :
        /\ getHeaderValue(headers, DirectionHeader) = InboundValue
        /\ \E reachable \in BOOLEAN :
            LET r == handleInbound(headers, reachable) IN
            \* an unused fetch outcome is no second behaviour
            /\ reachable \/ r.fetch.err = ErrFetchFailed
            /\ req' = RequestHeadersMsg(headers)
            /\ handler' = "handleInbound"
            /\ resp' = r.resp
            /\ jwksCache' = r.cache
            /\ fetch' = r.fetch
            /\ exchange' = NoExchange
    /\ pc' = "sent"
    /\ UNCHANGED policyVars

\* RequestHeaders with any other marker value, or none
ProcessOutbound ==
    /\ pc = "idle"
    /\ \E headers \in HeaderMaps :
        /\ getHeaderValue(headers, DirectionHeader) # InboundValue
        /\ \E reply \in IF handleOutbound(headers, NoReply).exchange.attempted
                        THEN Replies ELSE {NoReply} :
            LET r == handleOutbound(headers, reply) IN
            /\ req' = RequestHeadersMsg(headers)
            /\ handler' = "handleOutbound"
            /\ resp' = r.resp
            /\ exchange' = r.exchange
            /\ fetch' = NoFetch
    /\ pc' = "sent"
    /\ UNCHANGED <<policyVars, jwksCache>>

\* RequestHeaders without a header map: headers.Headers dereferences nil
ProcessNilHeaders ==
    /\ pc = "idle"
    /\ req' = NilHeadersMsg
    /\ pc' = "crashed"
    /\ UNCHANGED <<policyVars, jwksCache, resp, handler, fetch, exchange>>

ProcessResponseHeaders ==
    /\ pc = "idle"
    /\ \E hasHeaders \in BOOLEAN :
        req' = [type |-> "ResponseHeaders", hasHeaders |-> hasHeaders, headers |-> <<>>]
    /\ resp' = EmptyResponseHeadersResponse
    /\ handler' = "none"
    /\ pc' = "sent"
    /\ UNCHANGED <<policyVars, jwksCache, fetch, exchange>>

\* the default case of the type switch
ProcessUnknown ==
    /\ pc = "idle"
    /\ \E t \in OtherTypes :
        req' = [type |-> t, hasHeaders |-> FALSE, headers |-> <<>>]
    /\ resp' = EmptyProcessingResponse
    /\ handler' = "none"
    /\ pc' = "sent"
    /\ UNCHANGED <<policyVars, jwksCache, fetch, exchange>>

\* back to the top of the loop: the iteration's locals are gone
NextIteration ==
    /\ pc = "sent"
    /\ pc' = "idle"
    /\ req' = NoReq
    /\ resp' = NoResp
    /\ handler' = "none"
    /\ fetch' = NoFetch
    /\ exchange' = NoExchange
    /\ UNCHANGED <<policyVars, jwksCache>>

(***************************************************************************)
(* The identity provider and the cache's background refresh                *)
(***************************************************************************)
RotateKeys ==
    /\ pc = "idle"
    /\ idpKey < MaxKeyGen
    /\ idpKey' = idpKey + 1
    /\ UNCHANGED <<globalConfig, inboundJWKSURL, inboundIssuer, expectedAudience,
                   jwksCache, pc, req, resp, handler, fetch, exchange>>

\* a refresh that installs again the key set the cache already holds
RefreshJWKS_KeepsKeySet ==
    /\ ~jwksCache.isNil
    /\ jwksCache.keys # 0
    /\ jwksCache.keys # idpKey
    /\ jwksCache' = [jwksCache EXCEPT !.keys = jwksCache.keys]
    /\ UNCHANGED <<policyVars, pc, req, resp, handler, fetch, exchange>>

\* the cache's refresh goroutine, started by the first fetch of the URL: it
\* runs beside the stream loop, whatever the loop is doing
RefreshJWKS ==
    /\ ~jwksCache.isNil
    /\ jwksCache.keys # 0
    /\ jwksCache.keys # idpKey
    /\ jwksCache' = [jwksCache EXCEPT !.keys = idpKey]
    /\ UNCHANGED <<policyVars, pc, req, resp, handler, fetch, exchange>>

Next ==
    \/ ProcessInbound /\ UNCHANGED <<streamVars, netVars, resolverVars, restVars>>
    \/ ProcessOutbound /\ UNCHANGED <<streamVars, netVars, resolverVars, restVars>>
    \/ ProcessNilHeaders /\ UNCHANGED <<streamVars, netVars, resolverVars, restVars>>
    \/ ProcessResponseHeaders /\ UNCHANGED <<streamVars, netVars, resolverVars, restVars>>
    \/ ProcessUnknown /\ UNCHANGED <<streamVars, netVars, resolverVars, restVars>>
    \/ NextIteration /\ UNCHANGED <<streamVars, netVars, resolverVars, restVars>>
    \/ RotateKeys /\ UNCHANGED <<streamVars, netVars, resolverVars, restVars>>
    \/ RefreshJWKS /\ UNCHANGED <<streamVars, netVars, resolverVars, restVars>>

Spec == Init /\ [][Next]_vars

\* the refresh goroutine is never starved: its timer fires every refresh
\* window for as long as the process lives
SpecRefresh == Init /\ [][Next]_vars /\ WF_vars(RefreshJWKS)

(***************************************************************************)
(* One stream with its history: which requests were received and which     *)
(* responses were sent, in order                                           *)
(***************************************************************************)
\* a Send that leaves out the responses with no Response set
sendResponse_SkipUnset(stream, n, r) ==
    IF r.kind = "unset" THEN stream ELSE Append(stream, n)

\* stream.Send(resp): the response to the n-th request goes out
sendResponse(stream, n, r) == Append(stream, n)

\* one iteration of the loop that gets to stream.Send: Recv, the type
\* switch (handle), Send
Served(handle) ==
    /\ received < MaxMsgs
    /\ handle
    /\ received' = received + 1
    /\ sent' = sendResponse(sent, received + 1, resp')
    /\ UNCHANGED <<netVars, resolverVars, restVars>>

\* the iteration that panics in the type switch: Recv, no Send
Panicked(handle) ==
    /\ received < MaxMsgs
    /\ handle
    /\ received' = received + 1
    /\ UNCHANGED <<sent, netVars, resolverVars, restVars>>

\* a Filter with inbound validation and outbound exchange both configured
StreamInit ==
    /\ Init
    /\ inboundIssuer # "" /\ expectedAudience # ""
    /\ ~jwksCache.isNil /\ jwksCache.registered # {}
    /\ globalConfig.ClientID # <<>> /\ globalConfig.ClientSecret # <<>>
    /\ globalConfig.TargetAudience # "" /\ globalConfig.TargetScopes # ""

StreamNext ==
    \/ Served(ProcessInbound)
    \/ Served(ProcessOutbound)
    \/ Panicked(ProcessNilHeaders)
    \/ Served(ProcessResponseHeaders)
    \/ Served(ProcessUnknown)
    \/ NextIteration /\ UNCHANGED <<streamVars, netVars, resolverVars, restVars>>
    \/ RotateKeys /\ UNCHANGED <<streamVars, netVars, resolverVars, restVars>>
    \/ RefreshJWKS /\ UNCHANGED <<streamVars, netVars, resolverVars, restVars>>

SpecStream == StreamInit /\ [][StreamNext]_<<vars, streamVars>>

TypeOK ==
    /\ pc \in {"idle", "sent", "crashed"}
    /\ idpKey \in 1..MaxKeyGen
    /\ jwksCache.keys \in 0..MaxKeyGen
    /\ resp.kind \in {"none", "unset", "RequestHeaders", "ResponseHeaders", "ImmediateResponse"}

(***************************************************************************)
(* The Interceptor: init-iptables.sh                                       *)
(***************************************************************************)
\* defaults of the script's parameters
PROXY_PORT == 15123

INBOUND_PROXY_PORT == 15124

PROXY_UID == 1337

SSH_PORT == 22

ZTUNNEL_HBONE_PORT == 15008

\* 0x539/0xfff: the peer mesh's firewall mark, value and mask
ZTUNNEL_MARK == [value |-> 1337, mask |-> 4095]

ISTIO_HEALTH_PROBE_SRC == "169.254.7.127"

\* the ext_proc port and the proxy's admin port
EXT_PROC_PORT == 9090

ADMIN_PORT == 9901

\* the ports the peer mesh redirects to: ztunnel outbound and inbound
ZTUNNEL_OUTBOUND_PORT == 15001

ZTUNNEL_INBOUND_PORT == 15006

\* the values the caller may give the two exclude lists (comma-separated
\* lists, here as sequences of ports)
ScriptEnvs ==
    [OUTBOUND_PORTS_EXCLUDE : {<<>>, <<8080, 5432>>},
     INBOUND_PORTS_EXCLUDE : {<<>>, <<8080>>}]

\* A rule: its matches ("any" or 0 when the rule has no such match), its
\* target and the target's port.  mark is "set" for --mark ZTUNNEL_MARK and
\* "unset" for ! --mark; uid is "is" for --uid-owner PROXY_UID and "not" for
\* ! --uid-owner.
AnyPacket ==
    [proto |-> "any", mark |-> "any", uid |-> "any", dstType |-> "any",
     dst |-> "any", src |-> "any", dport |-> 0, target |-> "ACCEPT", to |-> 0]

\* rule 1 without --dst-type LOCAL
Rule1_AnyDestination ==
    [AnyPacket EXCEPT !.mark = "set", !.uid = "not", !.proto = "tcp",
                      !.target = "REDIRECT", !.to = INBOUND_PROXY_PORT]

\* -m mark --mark ZTUNNEL_MARK -m owner ! --uid-owner PROXY_UID
\* -m addrtype --dst-type LOCAL -p tcp -j REDIRECT --to-ports INBOUND_PROXY_PORT
Rule1 ==
    [AnyPacket EXCEPT !.mark = "set", !.uid = "not", !.dstType = "LOCAL",
                      !.proto = "tcp", !.target = "REDIRECT",
                      !.to = INBOUND_PROXY_PORT]

\* -m mark --mark ZTUNNEL_MARK -j RETURN
Rule2 == [AnyPacket EXCEPT !.mark = "set", !.target = "RETURN"]

\* rule 3 with the owner match negated
Rule3_NotProxy == [AnyPacket EXCEPT !.uid = "not", !.target = "RETURN"]

\* -m owner --uid-owner PROXY_UID -j RETURN
Rule3 == [AnyPacket EXCEPT !.uid = "is", !.target = "RETURN"]

\* -p tcp --dport port -j RETURN
RuleExcludePort(port) ==
    [AnyPacket EXCEPT !.proto = "tcp", !.dport = port, !.target = "RETURN"]

\* -p tcp -d 127.0.0.1/32 -j RETURN
RuleLoopback ==
    [AnyPacket EXCEPT !.proto = "tcp", !.dst = "127.0.0.1", !.target = "RETURN"]

\* -s ISTIO_HEALTH_PROBE_SRC/32 -p tcp -j RETURN
RuleHealthProbe ==
    [AnyPacket EXCEPT !.proto = "tcp", !.src = ISTIO_HEALTH_PROBE_SRC,
                      !.target = "RETURN"]

\* a last rule that returns instead of redirecting
RuleCatchAll_Return(port) ==
    [AnyPacket EXCEPT !.proto = "tcp", !.target = "RETURN", !.to = port]

\* -p tcp -j REDIRECT --to-port port
RuleCatchAll(port) ==
    [AnyPacket EXCEPT !.proto = "tcp", !.target = "REDIRECT", !.to = port]

\* -p tcp -j chain
RuleJump(chain) == [AnyPacket EXCEPT !.proto = "tcp", !.target = chain]

\* the mangle rule matching every owner but the proxy
MarkRule_OtherUid ==
    [AnyPacket EXCEPT !.uid = "not", !.dstType = "LOCAL", !.proto = "tcp",
                      !.target = "MARK"]

\* -m owner --uid-owner PROXY_UID -m addrtype --dst-type LOCAL -p tcp
\* -j MARK --set-mark ZTUNNEL_MARK
MarkRule ==
    [AnyPacket EXCEPT !.uid = "is", !.dstType = "LOCAL", !.proto = "tcp",
                      !.target = "MARK"]

\* the rules `for port in ...` appends, one per port of the list
ExcludeRules(ports) == [i \in 1..Len(ports) |-> RuleExcludePort(ports[i])]

\* PROXY_OUTPUT with rule 2 appended before rule 1
ProxyOutputRules_MarkReturnFirst(e) ==
    <<Rule2, Rule1, Rule3, RuleExcludePort(SSH_PORT), RuleLoopback>>
    \o ExcludeRules(e.OUTBOUND_PORTS_EXCLUDE)
    \o <<RuleCatchAll(PROXY_PORT)>>

\* the rules appended to PROXY_OUTPUT, in the order of the script
ProxyOutputRules(e) ==
    <<Rule1, Rule2, Rule3, RuleExcludePort(SSH_PORT), RuleLoopback>>
    \o ExcludeRules(e.OUTBOUND_PORTS_EXCLUDE)
    \o <<RuleCatchAll(PROXY_PORT)>>

\* the rules appended to PROXY_INBOUND, in the order of the script
ProxyInboundRules(e) ==
    <<RuleHealthProbe,
      RuleExcludePort(PROXY_PORT), RuleExcludePort(INBOUND_PROXY_PORT),
      RuleExcludePort(EXT_PROC_PORT), RuleExcludePort(ADMIN_PORT),
      RuleExcludePort(SSH_PORT), RuleExcludePort(ZTUNNEL_HBONE_PORT)>>
    \o ExcludeRules(e.INBOUND_PORTS_EXCLUDE)
    \o <<RuleCatchAll(INBOUND_PROXY_PORT)>>

\* The commands of the script.  orTrue: the command's failure is ignored
\* (`|| true`); every other failure ends the script (`set -e`).
Command(op, table, chain, rule, orTrue) ==
    [op |-> op, table |-> table, chain |-> chain, rule |-> rule, orTrue |-> orTrue]

AppendCommands(chain, rules) ==
    [i \in 1..Len(rules) |-> Command("-A", "nat", chain, rules[i], FALSE)]

Script(e) ==
    <<Command("sysctl", "", "", AnyPacket, FALSE),
      Command("-N", "nat", "PROXY_OUTPUT", AnyPacket, TRUE),
      Command("-F", "nat", "PROXY_OUTPUT", AnyPacket, TRUE)>>
    \o AppendCommands("PROXY_OUTPUT", ProxyOutputRules(e))
    \o <<Command("-C||-I", "nat", "OUTPUT", RuleJump("PROXY_OUTPUT"), FALSE),
         Command("-I", "mangle", "OUTPUT", MarkRule, FALSE),
         Command("-N", "nat", "PROXY_INBOUND", AnyPacket, TRUE),
         Command("-F", "nat", "PROXY_INBOUND", AnyPacket, TRUE)>>
    \o AppendCommands("PROXY_INBOUND", ProxyInboundRules(e))
    \o <<Command("-C||-I", "nat", "PREROUTING", RuleJump("PROXY_INBOUND"), FALSE)>>

\* iptables -I chain 1 that puts the rule last
insertFirst_Append(rules, rule) == Append(rules, rule)

\* iptables -I chain 1
insertFirst(rules, rule) == <<rule>> \o rules

\* iptables -N chain
newChain(table, chain) ==
    [c \in DOMAIN table \cup {chain} |-> IF c \in DOMAIN table THEN table[c] ELSE <<>>]

\* the chains and rules that are the Interceptor's own: everything but the
\* peer mesh's chains and the jumps to them
PeerChains == {"ISTIO_OUTPUT", "ISTIO_PRERT"}

IsOwnRule(rule) == rule.target \notin PeerChains

OwnRules(natTable, mangleTable) ==
    [nat |-> [c \in DOMAIN natTable \ PeerChains |-> SelectSeq(natTable[c], IsOwnRule)],
     mangle |-> mangleTable]

NoSnapshot == [taken |-> FALSE, rules |-> <<>>]

(***************************************************************************)
(* Packets and the traversal of a hook                                     *)
(***************************************************************************)
PodIP == "10.0.0.5"

RemoteIP == "10.0.1.9"

Loopback == {"127.0.0.1", "127.0.0.2"}

\* addresses of this network namespace (--dst-type LOCAL)
LocalAddrs == Loopback \cup {PodIP}

\* a mark without the peer mark, the peer mark, the peer mark with a bit
\* set above the mask
Marks == {0, ZTUNNEL_MARK.value, ZTUNNEL_MARK.value + ZTUNNEL_MARK.mask + 1}

\* root (the peer mesh's node proxy), the proxy, the application
Uids == {0, PROXY_UID, 1000}

Ports ==
    {SSH_PORT, PROXY_PORT, INBOUND_PROXY_PORT, EXT_PROC_PORT, ADMIN_PORT,
     ZTUNNEL_HBONE_PORT, 8080, 5432, 443}

\* locally generated packets (nat OUTPUT; the owner is the socket's uid) and
\* packets arriving from the network (nat PREROUTING; no owner, and no rule
\* there matches on it)
Packets ==
    [hook : {"OUTPUT"}, proto : {"tcp", "udp"}, mark : Marks, uid : Uids,
     src : {PodIP}, dst : LocalAddrs \cup {RemoteIP}, dport : Ports]
    \cup
    [hook : {"PREROUTING"}, proto : {"tcp", "udp"}, mark : {0}, uid : {0},
     src : {RemoteIP, ISTIO_HEALTH_PROBE_SRC}, dst : {PodIP, "127.0.0.1"},
     dport : Ports]

NoPkt ==
    [hook |-> "none", proto |-> "none", mark |-> 0, uid |-> 0, src |-> "",
     dst |-> "", dport |-> 0]

NoVerdict == [mark |-> 0, action |-> "none", to |-> 0, by |-> "", rule |-> 0]

\* -m mark --mark value/mask
HasMark(m) == m % (ZTUNNEL_MARK.mask + 1) = ZTUNNEL_MARK.value

\* -j MARK --set-mark value/mask
SetMark(m) == m - (m % (ZTUNNEL_MARK.mask + 1)) + ZTUNNEL_MARK.value

Matches(rule, p) ==
    /\ rule.proto \in {"any", p.proto}
    /\ rule.mark = "any" \/ ((rule.mark = "set") <=> HasMark(p.mark))
    /\ rule.uid = "any" \/ ((rule.uid = "is") <=> (p.uid = PROXY_UID))
    /\ rule.dstType = "any" \/ p.dst \in LocalAddrs
    /\ rule.dst \in {"any", p.dst}
    /\ rule.src \in {"any", p.src}
    /\ rule.dport \in {0, p.dport}

\* the mangle chain: MARK changes the packet and the traversal goes on
RECURSIVE Mangled(_, _, _)
Mangled(rules, i, p) ==
    IF i > Len(rules) THEN p
    ELSE IF Matches(rules[i], p) /\ rules[i].target = "MARK"
    THEN Mangled(rules, i + 1, [p EXCEPT !.mark = SetMark(p.mark)])
    ELSE Mangled(rules, i + 1, p)

\* a nat chain from rule i on: the first matching rule decides; a jump goes
\* through the other chain and comes back when that chain returns or ends
RECURSIVE Walk(_, _, _, _)
Walk(table, chain, i, p) ==
    IF i > Len(table[chain])
    THEN [action |-> "RETURN", to |-> 0, by |-> chain, rule |-> 0]
    ELSE
    LET r == table[chain][i] IN
    IF ~Matches(r, p) THEN Walk(table, chain, i + 1, p)
    ELSE IF r.target \in {"REDIRECT", "RETURN", "ACCEPT"}
    THEN [action |-> r.target, to |-> r.to, by |-> chain, rule |-> i]
    ELSE
    LET sub == Walk(table, r.target, 1, p) IN
    IF sub.action = "RETURN" THEN Walk(table, chain, i + 1, p) ELSE sub

\* the hook: mangle OUTPUT before nat OUTPUT for a local packet, nat
\* PREROUTING for an arriving one; the built-in chain's policy is ACCEPT
Hook(natTable, mangleTable, p) ==
    LET q == IF p.hook = "OUTPUT" THEN Mangled(mangleTable["OUTPUT"], 1, p) ELSE p
        w == Walk(natTable, p.hook, 1, q)
    IN
    [mark |-> q.mark,
     action |-> IF w.action = "RETURN" THEN "ACCEPT" ELSE w.action,
     to |-> w.to, by |-> w.by, rule |-> w.rule]

(***************************************************************************)
(* The peer mesh: its agent appends its jumps to the parent chains         *)
(***************************************************************************)
\* ISTIO_OUTPUT: mark != 0x539 -> REDIRECT to ztunnel's outbound port
IstioOutputRules ==
    <<[AnyPacket EXCEPT !.proto = "tcp", !.mark = "unset", !.target = "REDIRECT",
                        !.to = ZTUNNEL_OUTBOUND_PORT]>>

\* ISTIO_PRERT: redirect to ztunnel's inbound port
IstioPrertRules == <<RuleCatchAll(ZTUNNEL_INBOUND_PORT)>>

PeerChainOf(parent) == IF parent = "OUTPUT" THEN "ISTIO_OUTPUT" ELSE "ISTIO_PRERT"

PeerRulesOf(parent) == IF parent = "OUTPUT" THEN IstioOutputRules ELSE IstioPrertRules

PeerInstall ==
    /\ pkt = NoPkt
    /\ \E parent \in {"OUTPUT", "PREROUTING"} \ peer :
        /\ peer' = peer \cup {parent}
        /\ nat' = [c \in DOMAIN nat \cup {PeerChainOf(parent)} |->
                     IF c = PeerChainOf(parent) THEN PeerRulesOf(parent)
                     ELSE IF c = parent THEN Append(nat[c], RuleJump(PeerChainOf(parent)))
                     ELSE nat[c]]
    /\ UNCHANGED <<scriptEnv, mangle, route_localnet, line, runs, pkt, verdict,
                   firstRun, vars, streamVars,
                   resolverVars, restVars>>

(***************************************************************************)
(* The script, command by command                                          *)
(***************************************************************************)
\* the Filter's variables, held still
FilterAbsent ==
    /\ globalConfig = <<>>
    /\ jwksCache = NilCache
    /\ inboundJWKSURL = <<>>
    /\ inboundIssuer = ""
    /\ expectedAudience = ""
    /\ idpKey = 1
    /\ pc = "absent"
    /\ req = NoReq
    /\ resp = NoResp
    /\ handler = "none"
    /\ fetch = NoFetch
    /\ exchange = NoExchange
    /\ StreamUnrecorded

\* a fresh network namespace: the built-in chains are empty
InterceptorInit ==
    /\ FilterAbsent
    /\ ResolverAbsent
    /\ RestAbsent
    /\ scriptEnv \in ScriptEnvs
    /\ nat = [c \in {"OUTPUT", "PREROUTING"} |-> <<>>]
    /\ mangle = [c \in {"OUTPUT"} |-> <<>>]
    /\ route_localnet = 0
    /\ line = [n |-> 0, state |-> "notstarted", ignored |-> {}]
    /\ runs = 0
    /\ peer = {}
    /\ pkt = NoPkt
    /\ verdict = NoVerdict
    /\ firstRun = NoSnapshot

Running == line.state = "running"

Current == Script(scriptEnv)[line.n]

\* the init container starts the script (again)
Start ==
    /\ line.state \in {"notstarted", "exit 0", "exit 1"}
    /\ pkt = NoPkt
    /\ runs < MaxRuns
    /\ runs' = runs + 1
    /\ line' = [n |-> 1, state |-> "running", ignored |-> {}]
    /\ UNCHANGED <<scriptEnv, nat, mangle, route_localnet, peer, pkt, verdict,
                   firstRun, vars, streamVars,
                   resolverVars, restVars>>

\* on to the next command, or exit 0 after the last one; the end of the
\* first run is remembered
Advance(natTable, mangleTable) ==
    /\ line' = IF line.n = Len(Script(scriptEnv))
               THEN [line EXCEPT !.state = "exit 0"]
               ELSE [line EXCEPT !.n = line.n + 1]
    /\ firstRun' = IF line.n = Len(Script(scriptEnv)) /\ runs = 1
                   THEN [taken |-> TRUE, rules |-> OwnRules(natTable, mangleTable)]
                   ELSE firstRun
    /\ UNCHANGED <<scriptEnv, runs, peer, pkt, verdict, vars, streamVars,
                   resolverVars, restVars>>

\* sysctl -w net.ipv4.conf.all.route_localnet=1
Sysctl ==
    /\ Running /\ Current.op = "sysctl"
    /\ route_localnet' = 1
    /\ UNCHANGED <<nat, mangle>>
    /\ Advance(nat, mangle)

\* iptables -t nat -N chain 2>/dev/null || true
NewChain ==
    /\ Running /\ Current.op = "-N"
    /\ Current.chain \notin DOMAIN nat
    /\ nat' = newChain(nat, Current.chain)
    /\ UNCHANGED <<mangle, route_localnet>>
    /\ Advance(nat', mangle)

\* iptables -t nat -F chain 2>/dev/null || true
FlushChain ==
    /\ Running /\ Current.op = "-F"
    /\ Current.chain \in DOMAIN nat
    /\ nat' = [nat EXCEPT ![Current.chain] = <<>>]
    /\ UNCHANGED <<mangle, route_localnet>>
    /\ Advance(nat', mangle)

\* iptables -t nat -A chain rule
AppendRule ==
    /\ Running /\ Current.op = "-A"
    /\ Current.chain \in DOMAIN nat
    /\ nat' = [nat EXCEPT ![Current.chain] = Append(@, Current.rule)]
    /\ UNCHANGED <<mangle, route_localnet>>
    /\ Advance(nat', mangle)

\* if ! iptables -t nat -C chain rule; then iptables -t nat -I chain 1 rule; fi
InsertJump ==
    /\ Running /\ Current.op = "-C||-I"
    /\ nat' = IF \E i \in 1..Len(nat[Current.chain]) : nat[Current.chain][i] = Current.rule
              THEN nat
              ELSE [nat EXCEPT ![Current.chain] = insertFirst(@, Current.rule)]
    /\ UNCHANGED <<mangle, route_localnet>>
    /\ Advance(nat', mangle)

\* iptables -t mangle -I OUTPUT 1 rule
InsertMark ==
    /\ Running /\ Current.op = "-I"
    /\ mangle' = [mangle EXCEPT ![Current.chain] = insertFirst(@, Current.rule)]
    /\ UNCHANGED <<nat, route_localnet>>
    /\ Advance(nat, mangle')

\* a command followed by `|| true` fails (-N on a chain that exists, or any
\* other failure of iptables): nothing is changed and the script goes on
FailureIgnored ==
    /\ Running /\ Current.orTrue
    /\ line' = [line EXCEPT !.n = line.n + 1, !.ignored = @ \cup {Current.op}]
    /\ UNCHANGED <<scriptEnv, nat, mangle, route_localnet, runs, peer, pkt,
                   verdict, firstRun, vars, streamVars,
                   resolverVars, restVars>>

\* a command fails and set -e ends the script with what is installed so far
CommandFails ==
    /\ Running /\ ~Current.orTrue
    /\ line' = [line EXCEPT !.state = "exit 1"]
    /\ UNCHANGED <<scriptEnv, nat, mangle, route_localnet, runs, peer, pkt,
                   verdict, firstRun, vars, streamVars,
                   resolverVars, restVars>>

\* a packet goes through its hook once the script has exited with status 0
Traverse ==
    /\ line.state = "exit 0"
    /\ pkt = NoPkt
    /\ \E p \in Packets :
        /\ pkt' = p
        /\ verdict' = Hook(nat, mangle, p)
    /\ UNCHANGED <<scriptEnv, nat, mangle, route_localnet, line, runs, peer,
                   firstRun, vars, streamVars,
                   resolverVars, restVars>>

Delivered ==
    /\ pkt # NoPkt
    /\ pkt' = NoPkt
    /\ verdict' = NoVerdict
    /\ UNCHANGED <<scriptEnv, nat, mangle, route_localnet, line, runs, peer,
                   firstRun, vars, streamVars,
                   resolverVars, restVars>>

InterceptorNext ==
    \/ Start
    \/ Sysctl
    \/ NewChain
    \/ FlushChain
    \/ AppendRule
    \/ InsertJump
    \/ InsertMark
    \/ FailureIgnored
    \/ CommandFails
    \/ PeerInstall
    \/ Traverse
    \/ Delivered

SpecInterceptor == InterceptorInit /\ [][InterceptorNext]_netVars

(***************************************************************************)
(* The Resolver: StaticResolver of go-processor/internal/resolver.  Hosts  *)
(* and patterns are strings in which ".", ":", "[", "]" and "*" are always *)
(* elements of their own; every other element is a run of other            *)
(* characters.                                                             *)
(***************************************************************************)
\* bytealg.IndexByteString, positions from 1, 0 when c does not occur
IndexByte(s, c) ==
    IF \E i \in 1..Len(s) : s[i] = c
    THEN CHOOSE i \in 1..Len(s) : s[i] = c /\ \A j \in 1..(i - 1) : s[j] # c
    ELSE 0

\* bytealg.LastIndexByteString, positions from 1, 0 when c does not occur
LastIndexByte(s, c) ==
    IF \E i \in 1..Len(s) : s[i] = c
    THEN CHOOSE i \in 1..Len(s) : s[i] = c /\ \A j \in (i + 1)..Len(s) : s[j] # c
    ELSE 0

AddrError(text) == [host |-> <<>>, port |-> <<>>, err |-> <<text>>]

\* a split at the last colon that knows nothing of brackets
SplitHostPort_LastColon(hostport) ==
    LET i == LastIndexByte(hostport, ":")
    IN  IF i = 0
        THEN AddrError("missing port in address")
        ELSE [host |-> SubSeq(hostport, 1, i - 1),
              port |-> SubSeq(hostport, i + 1, Len(hostport)),
              err |-> <<>>]

\* net.SplitHostPort
SplitHostPort(hostport) ==
    LET i == LastIndexByte(hostport, ":")
        bracketed == hostport[1] = "["
        end == IndexByte(hostport, "]")
        h == IF bracketed
             THEN SubSeq(hostport, 2, end - 1)
             ELSE SubSeq(hostport, 1, i - 1)
        j == IF bracketed THEN 2 ELSE 1
        k == IF bracketed THEN end + 1 ELSE 1
    IN  IF i = 0 THEN AddrError("missing port in address")
        ELSE IF bracketed /\ end = 0
            THEN AddrError("missing ']' in address")
        ELSE IF bracketed /\ end = Len(hostport)
            THEN AddrError("missing port in address")
        ELSE IF bracketed /\ end + 1 # i
            THEN IF hostport[end + 1] = ":"
                 THEN AddrError("too many colons in address")
                 ELSE AddrError("missing port in address")
        ELSE IF ~bracketed /\ IndexByte(h, ":") # 0
            THEN AddrError("too many colons in address")
        ELSE IF IndexByte(SubSeq(hostport, j, Len(hostport)), "[") # 0
            THEN AddrError("unexpected '[' in address")
        ELSE IF IndexByte(SubSeq(hostport, k, Len(hostport)), "]") # 0
            THEN AddrError("unexpected ']' in address")
        ELSE [host |-> h,
              port |-> SubSeq(hostport, i + 1, Len(hostport)),
              err |-> <<>>]

\* no separator: "*" matches any run of characters
Separators_None == {}

\* the separators the patterns are compiled with: glob.Compile(yr.Host, '.')
Separators == {"."}

\* glob.Compile fails on a character class that is never closed; the
\* patterns of the model hold no other syntax than "*", "**" and "["
Compile(pattern, separators) ==
    [pattern |-> pattern,
     separators |-> separators,
     err |-> IF IndexByte(pattern, "[") # 0 /\ IndexByte(pattern, "]") = 0
             THEN <<"unexpected end of input">>
             ELSE <<>>]

\* glob.Glob.Match of a pattern made of text, "*" and "**"
RECURSIVE MatchFrom(_, _, _)
MatchFrom(pattern, separators, s) ==
    IF pattern = <<>> THEN s = <<>>
    ELSE IF Len(pattern) >= 2 /\ pattern[1] = "*" /\ pattern[2] = "*"
        THEN \E n \in 0..Len(s) :
                MatchFrom(SubSeq(pattern, 3, Len(pattern)), separators,
                          SubSeq(s, n + 1, Len(s)))
    ELSE IF pattern[1] = "*"
        THEN \E n \in 0..Len(s) :
                /\ \A m \in 1..n : s[m] \notin separators
                /\ MatchFrom(Tail(pattern), separators, SubSeq(s, n + 1, Len(s)))
    ELSE /\ s # <<>>
         /\ s[1] = pattern[1]
         /\ MatchFrom(Tail(pattern), separators, Tail(s))

Match(g, s) == MatchFrom(g.pattern, g.separators, s)

\* a nil *TargetConfig
NilTargetConfig == [nil |-> TRUE]

\* the routeEntry of a yamlRoute
routeEntry(yr) ==
    [pattern |-> yr.Host,
     glob |-> Compile(yr.Host, Separators),
     config |-> [Audience |-> yr.TargetAudience,
                 Scopes |-> yr.TokenScopes,
                 TokenEndpoint |-> yr.TokenURL,
                 Passthrough |-> yr.Passthrough,
                 RequireAuthorization |-> yr.AuthorizationCheck]]

\* the loop over the file's routes: an invalid pattern is logged and skipped
RECURSIVE LoadRoutes(_)
LoadRoutes(yamlRoutes) ==
    IF yamlRoutes = <<>> THEN <<>>
    ELSE IF routeEntry(Head(yamlRoutes)).glob.err # <<>>
        THEN LoadRoutes(Tail(yamlRoutes))
    ELSE <<routeEntry(Head(yamlRoutes))>> \o LoadRoutes(Tail(yamlRoutes))

\* a constructor that refuses to start without its file
NewStaticResolver_MissingFileFails(file) ==
    IF ~file.exists \/ ~file.readable
    THEN [routes |-> <<>>, err |-> <<"open: no such file or directory">>]
    ELSE IF ~file.yaml THEN [routes |-> <<>>, err |-> <<"yaml: unmarshal error">>]
    ELSE [routes |-> LoadRoutes(file.routes), err |-> <<>>]

\* NewStaticResolver(configPath), file being what is found at configPath:
\* the pair (*StaticResolver, error), routes being r.routes
NewStaticResolver(file) ==
    IF ~file.exists THEN [routes |-> <<>>, err |-> <<>>]
    ELSE IF ~file.readable
        THEN [routes |-> <<>>, err |-> <<"read: permission denied">>]
    ELSE IF ~file.yaml THEN [routes |-> <<>>, err |-> <<"yaml: unmarshal error">>]
    ELSE [routes |-> LoadRoutes(file.routes), err |-> <<>>]

\* the scan of Resolve from entry i on
RECURSIVE FirstMatch(_, _, _)
FirstMatch(routes, i, h) ==
    IF i > Len(routes) THEN [config |-> NilTargetConfig, err |-> <<>>]
    ELSE IF Match(routes[i].glob, h)
        THEN [config |-> routes[i].config, err |-> <<>>]
    ELSE FirstMatch(routes, i + 1, h)

\* a scan in which a later matching entry replaces an earlier one
Resolve_LastMatch(r, hostport) ==
    LET split == SplitHostPort(hostport)
        h == IF split.err = <<>> THEN split.host ELSE hostport
        hits == {i \in 1..Len(r.routes) : Match(r.routes[i].glob, h)}
    IN  IF hits = {} THEN [config |-> NilTargetConfig, err |-> <<>>]
        ELSE [config |-> r.routes[CHOOSE i \in hits : \A n \in hits : n <= i].config,
              err |-> <<>>]

\* StaticResolver.Resolve: the pair (*TargetConfig, error)
Resolve(r, hostport) ==
    LET split == SplitHostPort(hostport)
        h == IF split.err = <<>> THEN split.host ELSE hostport
    IN  FirstMatch(r.routes, 1, h)

\* ---- the files and the hosts ----
ExampleCom == <<"example", ".", "com">>

Patterns ==
    {<<"specific", ".">> \o ExampleCom,
     <<"*", ".">> \o ExampleCom,
     <<"*", "*", ".">> \o ExampleCom,
     <<":", ":", "1">>,
     <<"api", ".", "internal">>,
     <<"[", "a">>}

YamlRoutes ==
    {[Host |-> p, TargetAudience |-> "svc-C", TokenScopes |-> <<"openid">>,
      TokenURL |-> <<"https://custom.idp/token">>, Passthrough |-> FALSE,
      AuthorizationCheck |-> TRUE] : p \in Patterns}
    \cup {[Host |-> p, TargetAudience |-> "", TokenScopes |-> <<>>,
           TokenURL |-> <<>>, Passthrough |-> TRUE,
           AuthorizationCheck |-> FALSE] : p \in Patterns}

RECURSIVE SeqsUpTo(_, _)
SeqsUpTo(S, n) ==
    IF n = 0 THEN {<<>>}
    ELSE SeqsUpTo(S, n - 1)
         \cup {Append(q, x) : q \in {t \in SeqsUpTo(S, n - 1) : Len(t) = n - 1},
                              x \in S}

ConfigFiles ==
    {[exists |-> FALSE, readable |-> FALSE, yaml |-> FALSE, routes |-> <<>>],
     [exists |-> TRUE, readable |-> FALSE, yaml |-> FALSE, routes |-> <<>>],
     [exists |-> TRUE, readable |-> TRUE, yaml |-> FALSE, routes |-> <<>>]}
    \cup {[exists |-> TRUE, readable |-> TRUE, yaml |-> TRUE, routes |-> q] :
            q \in SeqsUpTo(YamlRoutes, MaxRoutes)}

\* host names: no colon, no bracket
HostNames ==
    {<<"specific", ".">> \o ExampleCom,
     <<"foo", ".">> \o ExampleCom,
     <<"foo", "bar", ".">> \o ExampleCom,
     <<"a", ".", "b", ".">> \o ExampleCom,
     <<".">> \o ExampleCom,
     ExampleCom,
     <<"api", ".", "internal">>,
     <<"other", ".", "org">>}

\* IPv6 addresses
IPv6Addrs == {<<":", ":", "1">>, <<"fe80", ":", ":", "1">>}

HostPorts == {<<"8080">>, <<"443">>, <<>>}

\* host:port and [addr]:port
WithPort(h, port) ==
    IF h \in IPv6Addrs THEN <<"[">> \o h \o <<"]", ":">> \o port
    ELSE h \o <<":">> \o port

\* what a caller can hand to Resolve, well formed or not
Hosts ==
    HostNames \cup IPv6Addrs
    \cup {WithPort(h, p) : h \in HostNames \cup IPv6Addrs, p \in HostPorts}
    \cup {<<"[", ":", ":", "1", "]">>,
          <<":", ":", "1", ":", "8080">>,
          <<"[", ":", ":", "1", "]", "x", ":", "8080">>,
          <<"[", ":", ":", "1", ":", "8080">>,
          <<"foo", "]", ":", "8080">>,
          <<"foo", "[", ":", "8080">>,
          <<>>}

NotConstructed == [routes |-> <<>>, err |-> <<"not constructed">>]
NoConfigFile == [exists |-> FALSE, readable |-> FALSE, yaml |-> FALSE, routes |-> <<>>]
NoLookup == [config |-> NilTargetConfig, err |-> <<"not called">>]

ResolverInit ==
    /\ FilterAbsent
    /\ InterceptorAbsent
    /\ RestAbsent
    /\ configPath = NoConfigFile
    /\ resolver = NotConstructed
    /\ host = <<>>
    /\ resolved = NoLookup

\* main constructs the resolver from the file at its path
Construct ==
    /\ resolver = NotConstructed
    /\ \E file \in ConfigFiles :
        /\ configPath' = file
        /\ resolver' = NewStaticResolver(file)
    /\ UNCHANGED <<host, resolved, vars, streamVars, netVars, restVars>>

\* a lookup on the constructed resolver
Lookup ==
    /\ resolver # NotConstructed
    /\ resolver.err = <<>>
    /\ \E hostport \in Hosts :
        /\ host' = hostport
        /\ resolved' = Resolve(resolver, hostport)
    /\ UNCHANGED <<configPath, resolver, vars, streamVars, netVars, restVars>>

ResolverNext ==
    \/ Construct
    \/ Lookup

SpecResolver == ResolverInit /\ [][ResolverNext]_resolverVars

(***************************************************************************)
(* The webhook's injector (kagenti-webhook/internal/webhook/injector):     *)
(* the PrecedenceEvaluator and PodMutator.InjectAuthBridge.  A label map   *)
(* is a function from the keys present to their values; a *bool is <<>>    *)
(* for nil and <<b>> for a pointer to b.                                    *)
(***************************************************************************)
LabelEnvoyProxyInject == "kagenti.io/envoy-proxy-inject"
LabelSpiffeHelperInject == "kagenti.io/spiffe-helper-inject"
LabelClientRegistrationInject == "kagenti.io/client-registration-inject"
LabelNamespaceInject == "kagenti-enabled"
AuthBridgeInjectLabel == "kagenti.io/inject"
AuthBridgeInjectValue == "enabled"
AuthBridgeDisabledValue == "disabled"
SpireEnableLabel == "kagenti.io/spire"
SpireEnabledValue == "enabled"
KagentiTypeLabel == "kagenti.io/type"
KagentiTypeAgent == "agent"
KagentiTypeTool == "tool"
EnvoyProxyContainerName == "envoy-proxy"
ProxyInitContainerName == "proxy-init"
SpiffeHelperContainerName == "spiffe-helper"
ClientRegistrationContainerName == "kagenti-client-registration"

\* m[k] of a Go map: the zero value when the key is absent
MapIndex(m, k) == IF k \in DOMAIN m THEN m[k] ELSE ""

SidecarDecision(inject, reason, layer) ==
    [Inject |-> inject, Reason |-> reason, Layer |-> layer]

\* a chain in which the TokenExchange CR is asked before the namespace and
\* the workload label
evaluateSidecar_CRFirst(e, sidecarName, featureGateEnabled, namespaceOptedIn, workloadLabelValue, crdEnabled, platformDefaultEnabled) ==
    IF ~e.featureGates.GlobalEnabled
    THEN SidecarDecision(FALSE, <<"global kill switch disabled">>, "global-gate")
    ELSE IF ~featureGateEnabled
    THEN SidecarDecision(FALSE, <<sidecarName, " feature gate disabled">>, "feature-gate")
    ELSE IF crdEnabled # <<>>
    THEN IF crdEnabled[1]
         THEN SidecarDecision(TRUE, <<"TokenExchange CR enabled ", sidecarName>>,
                              "tokenexchange-cr")
         ELSE SidecarDecision(FALSE, <<"TokenExchange CR disabled ", sidecarName>>,
                              "tokenexchange-cr")
    ELSE IF ~namespaceOptedIn
    THEN SidecarDecision(FALSE,
            <<"namespace not opted in (missing ", LabelNamespaceInject, "=true)">>,
            "namespace")
    ELSE IF workloadLabelValue = "false"
    THEN SidecarDecision(FALSE, <<"workload label disabled ", sidecarName>>,
                         "workload-label")
    ELSE IF ~platformDefaultEnabled
    THEN SidecarDecision(FALSE, <<"platform default disabled ", sidecarName>>,
                         "platform-default")
    ELSE SidecarDecision(TRUE, <<"all gates passed">>, "default")

\* PrecedenceEvaluator.evaluateSidecar
evaluateSidecar(e, sidecarName, featureGateEnabled, namespaceOptedIn, workloadLabelValue, crdEnabled, platformDefaultEnabled) ==
    IF ~e.featureGates.GlobalEnabled
    THEN SidecarDecision(FALSE, <<"global kill switch disabled">>, "global-gate")
    ELSE IF ~featureGateEnabled
    THEN SidecarDecision(FALSE, <<sidecarName, " feature gate disabled">>, "feature-gate")
    ELSE IF ~namespaceOptedIn
    THEN SidecarDecision(FALSE,
            <<"namespace not opted in (missing ", LabelNamespaceInject, "=true)">>,
            "namespace")
    ELSE IF workloadLabelValue = "false"
    THEN SidecarDecision(FALSE, <<"workload label disabled ", sidecarName>>,
                         "workload-label")
    ELSE IF crdEnabled # <<>>
    THEN IF crdEnabled[1]
         THEN SidecarDecision(TRUE, <<"TokenExchange CR enabled ", sidecarName>>,
                              "tokenexchange-cr")
         ELSE SidecarDecision(FALSE, <<"TokenExchange CR disabled ", sidecarName>>,
                              "tokenexchange-cr")
    ELSE IF ~platformDefaultEnabled
    THEN SidecarDecision(FALSE, <<"platform default disabled ", sidecarName>>,
                         "platform-default")
    ELSE SidecarDecision(TRUE, <<"all gates passed">>, "default")

\* a spiffe-helper chain that never asks for the SPIRE label
evaluateSpiffeHelper_NoSpireLabel(e, featureGateEnabled, namespaceOptedIn, workloadLabels, crdEnabled, platformDefaultEnabled) ==
    evaluateSidecar(e, "spiffe-helper", featureGateEnabled, namespaceOptedIn,
                    MapIndex(workloadLabels, LabelSpiffeHelperInject),
                    crdEnabled, platformDefaultEnabled)

\* PrecedenceEvaluator.evaluateSpiffeHelper
evaluateSpiffeHelper(e, featureGateEnabled, namespaceOptedIn, workloadLabels, crdEnabled, platformDefaultEnabled) ==
    LET chain == evaluateSidecar(e, "spiffe-helper", featureGateEnabled,
                                 namespaceOptedIn,
                                 MapIndex(workloadLabels, LabelSpiffeHelperInject),
                                 crdEnabled, platformDefaultEnabled)
    IN  IF ~chain.Inject THEN chain
        ELSE IF \/ SpireEnableLabel \notin DOMAIN workloadLabels
                \/ workloadLabels[SpireEnableLabel] # SpireEnabledValue
        THEN SidecarDecision(FALSE,
                <<"SPIRE not enabled (missing ", SpireEnableLabel, "=",
                  SpireEnabledValue, ")">>,
                "spire-label")
        ELSE chain

\* a proxy-init that is injected whatever was decided for envoy-proxy
ProxyInitDecision_Always(envoy) ==
    SidecarDecision(TRUE, <<"follows envoy-proxy decision">>, envoy.Layer)

\* Evaluate: proxy-init always follows envoy-proxy
ProxyInitDecision(envoy) ==
    SidecarDecision(envoy.Inject, <<"follows envoy-proxy decision">>, envoy.Layer)

NoOverrides == [nil |-> TRUE]

\* PrecedenceEvaluator.Evaluate
Evaluate(e, namespaceLabels, workloadLabels, tokenExchangeOverrides) ==
    LET namespaceOptedIn == MapIndex(namespaceLabels, LabelNamespaceInject) = "true"
        given == tokenExchangeOverrides # NoOverrides
        teEnvoy == IF given THEN tokenExchangeOverrides.EnvoyProxy ELSE <<>>
        teSpiffe == IF given THEN tokenExchangeOverrides.SpiffeHelper ELSE <<>>
        teClientReg == IF given THEN tokenExchangeOverrides.ClientRegistration ELSE <<>>
        envoy == evaluateSidecar(e, "envoy-proxy", e.featureGates.EnvoyProxy,
                                 namespaceOptedIn,
                                 MapIndex(workloadLabels, LabelEnvoyProxyInject),
                                 teEnvoy,
                                 e.platformConfig.Sidecars.EnvoyProxy.Enabled)
    IN  [EnvoyProxy |-> envoy,
         ProxyInit |-> ProxyInitDecision(envoy),
         SpiffeHelper |->
            evaluateSpiffeHelper(e, e.featureGates.SpiffeHelper, namespaceOptedIn,
                                 workloadLabels, teSpiffe,
                                 e.platformConfig.Sidecars.SpiffeHelper.Enabled),
         ClientRegistration |->
            evaluateSidecar(e, "client-registration", e.featureGates.ClientRegistration,
                            namespaceOptedIn,
                            MapIndex(workloadLabels, LabelClientRegistrationInject),
                            teClientReg,
                            e.platformConfig.Sidecars.ClientRegistration.Enabled)]

\* InjectionDecision.AnyInjected
AnyInjected(d) == d.EnvoyProxy.Inject \/ d.SpiffeHelper.Inject \/ d.ClientRegistration.Inject

\* IsSpireEnabled
IsSpireEnabled(labels) ==
    IF SpireEnableLabel \notin DOMAIN labels THEN FALSE
    ELSE labels[SpireEnableLabel] = SpireEnabledValue

containerExists(containers, name) ==
    \E i \in 1..Len(containers) : containers[i].Name = name

volumeExists(volumes, name) ==
    \E i \in 1..Len(volumes) : volumes[i].Name = name

\* the containers of the ContainerBuilder, by name and image
BuildContainer(name, image) == [Name |-> name, Image |-> image]

\* BuildRequiredVolumes: the volumes of a workload with SPIRE
BuildRequiredVolumes ==
    <<[Name |-> "spire-agent-socket"], [Name |-> "spiffe-helper-config"],
      [Name |-> "svid-output"], [Name |-> "envoy-config"]>>

\* BuildRequiredVolumesNoSpire
BuildRequiredVolumesNoSpire == <<[Name |-> "envoy-config"]>>

\* the loop that adds the required volumes that are not there yet
RECURSIVE AddVolumes(_, _)
AddVolumes(volumes, required) ==
    IF required = <<>> THEN volumes
    ELSE AddVolumes(IF volumeExists(volumes, Head(required).Name)
                    THEN volumes
                    ELSE Append(volumes, Head(required)),
                    Tail(required))

\* an append without the look for the name
AppendUnless_Always(containers, inject, container) ==
    IF inject THEN Append(containers, container) ELSE containers

\* if decision.X.Inject && !containerExists(list, name) { list = append(list, c) }
AppendUnless(containers, inject, container) ==
    IF inject /\ ~containerExists(containers, container.Name)
    THEN Append(containers, container)
    ELSE containers

\* the pre-filter of InjectAuthBridge and NeedsMutation: agent and tool
\* workloads only
Eligible(labels) ==
    /\ KagentiTypeLabel \in DOMAIN labels
    /\ labels[KagentiTypeLabel] \in {KagentiTypeAgent, KagentiTypeTool}

\* PodMutator.NeedsMutation: (bool, error), the namespace being what
\* IsNamespaceInjectionEnabled reads
NeedsMutation(ns, labels) ==
    IF ~Eligible(labels) THEN [needs |-> FALSE, err |-> <<>>]
    ELSE IF AuthBridgeInjectLabel \in DOMAIN labels
    THEN [needs |-> labels[AuthBridgeInjectLabel] = AuthBridgeInjectValue, err |-> <<>>]
    ELSE IF ~ns.found THEN [needs |-> FALSE, err |-> <<"namespace not found">>]
    ELSE [needs |-> MapIndex(ns.Labels, LabelNamespaceInject) = "true", err |-> <<>>]

\* PodMutator.InjectAuthBridge: the pod spec it leaves, the decision it took
\* and its return (bool, error)
InjectAuthBridge(e, spec, ns, labels) ==
    IF ~Eligible(labels)
    THEN [podSpec |-> spec, decision |-> <<>>, injected |-> FALSE, err |-> <<>>]
    ELSE IF ~ns.found
    THEN [podSpec |-> spec, decision |-> <<>>, injected |-> FALSE,
          err |-> <<"failed to fetch namespace: ", "not found">>]
    ELSE
    LET d == Evaluate(e, ns.Labels, labels, NoOverrides)
        spireEnabled == IsSpireEnabled(labels)
        images == e.platformConfig.Images
        c1 == AppendUnless(spec.Containers, d.EnvoyProxy.Inject,
                           BuildContainer(EnvoyProxyContainerName, images.EnvoyProxy))
        init == AppendUnless(spec.InitContainers, d.ProxyInit.Inject,
                             BuildContainer(ProxyInitContainerName, images.ProxyInit))
        c2 == AppendUnless(c1, d.SpiffeHelper.Inject,
                           BuildContainer(SpiffeHelperContainerName, images.SpiffeHelper))
        c3 == AppendUnless(c2, d.ClientRegistration.Inject,
                           BuildContainer(ClientRegistrationContainerName,
                                          images.ClientRegistration))
        required == IF spireEnabled THEN BuildRequiredVolumes
                    ELSE BuildRequiredVolumesNoSpire
    IN  IF ~AnyInjected(d)
        THEN [podSpec |-> spec, decision |-> d, injected |-> FALSE, err |-> <<>>]
        ELSE [podSpec |-> [Containers |-> c3,
                           InitContainers |-> init,
                           Volumes |-> AddVolumes(spec.Volumes, required)],
              decision |-> d, injected |-> TRUE, err |-> <<>>]

\* ---- the evaluators, the namespaces, the workloads ----
FeatureGates ==
    [GlobalEnabled : BOOLEAN, EnvoyProxy : BOOLEAN, SpiffeHelper : BOOLEAN,
     ClientRegistration : BOOLEAN]

CompiledImages ==
    [EnvoyProxy |-> "envoy-with-processor:latest", ProxyInit |-> "proxy-init:latest",
     SpiffeHelper |-> "spiffe-helper:nightly",
     ClientRegistration |-> "client-registration:latest"]

PlatformConfigs ==
    {[Images |-> CompiledImages,
      Sidecars |-> [EnvoyProxy |-> [Enabled |-> a], SpiffeHelper |-> [Enabled |-> b],
                    ClientRegistration |-> [Enabled |-> c]]] :
        a \in BOOLEAN, b \in BOOLEAN, c \in BOOLEAN}

\* NewPrecedenceEvaluator
NewPrecedenceEvaluator(gates, cfg) ==
    [featureGates |-> gates, platformConfig |-> cfg]

Evaluators ==
    {NewPrecedenceEvaluator(gates, cfg) : gates \in FeatureGates, cfg \in PlatformConfigs}

NoLabels == <<>>

Namespaces ==
    {[found |-> TRUE, Labels |-> l] :
        l \in {NoLabels, LabelNamespaceInject :> "true", LabelNamespaceInject :> "false"}}
    \cup {[found |-> FALSE, Labels |-> NoLabels]}

SpireLabels ==
    {NoLabels, SpireEnableLabel :> SpireEnabledValue, SpireEnableLabel :> "disabled"}

SidecarLabels ==
    {NoLabels,
     LabelEnvoyProxyInject :> "false",
     LabelSpiffeHelperInject :> "false",
     LabelClientRegistrationInject :> "false",
     LabelEnvoyProxyInject :> "true" @@ LabelSpiffeHelperInject :> "true"
        @@ LabelClientRegistrationInject :> "true"}

TypeLabels ==
    {NoLabels, KagentiTypeLabel :> KagentiTypeAgent, KagentiTypeLabel :> KagentiTypeTool,
     KagentiTypeLabel :> "service"}

InjectLabels ==
    {NoLabels, AuthBridgeInjectLabel :> AuthBridgeInjectValue,
     AuthBridgeInjectLabel :> AuthBridgeDisabledValue}

\* the per-sidecar settings a TokenExchange CR can carry
Overrides ==
    {NoOverrides}
    \cup {[EnvoyProxy |-> p, SpiffeHelper |-> p, ClientRegistration |-> p] :
            p \in {<<>>, <<TRUE>>, <<FALSE>>}}
    \cup {[EnvoyProxy |-> <<TRUE>>, SpiffeHelper |-> <<>>, ClientRegistration |-> <<FALSE>>],
          [EnvoyProxy |-> <<FALSE>>, SpiffeHelper |-> <<TRUE>>, ClientRegistration |-> <<>>]}

AppContainer == BuildContainer("app", "my-app:latest")

\* pod templates as they come to the webhook
PodSpecs ==
    {[Containers |-> <<AppContainer>>, InitContainers |-> <<>>, Volumes |-> <<>>],
     [Containers |-> <<AppContainer>>,
      InitContainers |-> <<BuildContainer("migrate", "my-app:latest")>>,
      Volumes |-> <<[Name |-> "data"]>>]}

NoWorkload == [namespace |-> [found |-> FALSE, Labels |-> NoLabels],
               labels |-> NoLabels, overrides |-> NoOverrides]
NoDecision == <<>>
NoPodSpec == [Containers |-> <<>>, InitContainers |-> <<>>, Volumes |-> <<>>]
NotMutated == [applied |-> 0, injected |-> FALSE, err |-> <<>>]

notInjector == <<vars, streamVars, netVars, resolverVars, callVars, snapshotVars, loaderVars>>

InjectorInit ==
    /\ FilterAbsent
    /\ InterceptorAbsent
    /\ ResolverAbsent
    /\ CallsAbsent
    /\ SnapshotAbsent
    /\ LoaderAbsent
    /\ evaluator \in Evaluators
    /\ workload = NoWorkload
    /\ decision = NoDecision
    /\ podSpec = NoPodSpec
    /\ mutation = NotMutated

\* a call of Evaluate, with or without TokenExchange overrides
EvaluateCall ==
    /\ mutation.applied = 0
    /\ decision = NoDecision
    /\ \E ns \in {n \in Namespaces : n.found}, spire \in SpireLabels,
          sidecar \in SidecarLabels, te \in Overrides :
        /\ workload' = [namespace |-> ns, labels |-> spire @@ sidecar, overrides |-> te]
        /\ decision' = Evaluate(evaluator, ns.Labels, spire @@ sidecar, te)
    /\ UNCHANGED <<evaluator, podSpec, mutation, notInjector>>

\* the webhook admits a workload: InjectAuthBridge on its pod template
Admit ==
    /\ mutation.applied = 0
    /\ decision = NoDecision
    /\ \E ns \in Namespaces, type \in TypeLabels, inject \in InjectLabels,
          spire \in {l \in SpireLabels : l = NoLabels \/ IsSpireEnabled(l)},
          sidecar \in {NoLabels, LabelEnvoyProxyInject :> "false"},
          spec \in PodSpecs :
        LET labels == type @@ inject @@ spire @@ sidecar
            out == InjectAuthBridge(evaluator, spec, ns, labels)
        IN  /\ workload' = [namespace |-> ns, labels |-> labels, overrides |-> NoOverrides]
            /\ decision' = out.decision
            /\ podSpec' = out.podSpec
            /\ mutation' = [applied |-> 1, injected |-> out.injected, err |-> out.err]
    /\ UNCHANGED <<evaluator, notInjector>>

\* the same workload comes to the webhook again, already mutated
Readmit ==
    /\ mutation.applied \in 1..(MaxApplications - 1)
    /\ LET out == InjectAuthBridge(evaluator, podSpec, workload.namespace, workload.labels)
       IN  /\ decision' = out.decision
           /\ podSpec' = out.podSpec
           /\ mutation' = [applied |-> mutation.applied + 1,
                           injected |-> out.injected, err |-> out.err]
    /\ UNCHANGED <<evaluator, workload, notInjector>>

InjectorNext ==
    \/ EvaluateCall
    \/ Admit
    \/ Readmit

SpecInjector == InjectorInit /\ [][InjectorNext]_injectorVars

(***************************************************************************)
(* globalConfig under its RWMutex (go-processor/main.go): loadConfig       *)
(* writes the five fields one after the other under Lock, getConfig reads  *)
(* them one after the other under RLock and returns them by value.  A      *)
(* field's value is the number of the load that stored it, 0 before any.   *)
(***************************************************************************)
\* the order in which loadConfig assigns the fields
WriteOrder == <<"TokenURL", "TargetAudience", "TargetScopes", "ClientID", "ClientSecret">>

\* the order in which getConfig's return statement reads them
ReturnOrder == <<"ClientID", "ClientSecret", "TokenURL", "TargetAudience", "TargetScopes">>

Getters == 1..MaxGetters

ZeroConfig == [f \in {WriteOrder[i] : i \in 1..5} |-> 0]

\* an RLock that does not wait for the writer
CanRLock_Always(m) == TRUE

\* sync.RWMutex: RLock is granted while no writer holds the lock
CanRLock(m) == ~m.writer

\* sync.RWMutex: Lock is granted while nobody holds the lock
CanLock(m) == ~m.writer /\ m.readers = {}

SnapshotInit ==
    /\ FilterAbsent
    /\ InterceptorAbsent
    /\ ResolverAbsent
    /\ InjectorAbsent
    /\ CallsAbsent
    /\ LoaderAbsent
    /\ mu = [writer |-> FALSE, readers |-> {}]
    /\ shared = ZeroConfig
    /\ loadPc = 0
    /\ getters = [g \in Getters |-> [pc |-> "idle", copy |-> <<>>]]
    /\ published = {ZeroConfig}

notSnapshot == <<vars, streamVars, netVars, resolverVars, injectorVars, callVars, loaderVars>>

\* loadConfig: globalConfig.mu.Lock()
LoadLock ==
    /\ loadPc = 0
    /\ Cardinality(published) <= MaxLoads
    /\ CanLock(mu)
    /\ mu' = [mu EXCEPT !.writer = TRUE]
    /\ loadPc' = 1
    /\ UNCHANGED <<shared, getters, published, notSnapshot>>

\* loadConfig: the next assignment; the three environment fields are always
\* assigned, a credential only if its file or its variable has a value
LoadWrite ==
    /\ loadPc \in 1..5
    /\ LET field == WriteOrder[loadPc]
           n == Cardinality(published)
       IN  \E found \in BOOLEAN :
            /\ found \/ field \in {"ClientID", "ClientSecret"}
            /\ shared' = IF found THEN [shared EXCEPT ![field] = n] ELSE shared
    /\ loadPc' = loadPc + 1
    /\ UNCHANGED <<mu, getters, published, notSnapshot>>

\* loadConfig: the deferred Unlock
LoadUnlock ==
    /\ loadPc = 6
    /\ mu' = [mu EXCEPT !.writer = FALSE]
    /\ published' = published \cup {shared}
    /\ loadPc' = 0
    /\ UNCHANGED <<shared, getters, notSnapshot>>

\* getConfig: globalConfig.mu.RLock()
GetRLock(g) ==
    /\ getters[g].pc = "idle"
    /\ CanRLock(mu)
    /\ mu' = [mu EXCEPT !.readers = @ \cup {g}]
    /\ getters' = [getters EXCEPT ![g] = [pc |-> "reading", copy |-> <<>>]]
    /\ UNCHANGED <<shared, loadPc, published, notSnapshot>>

\* getConfig: the next operand of the return statement is read
GetRead(g) ==
    /\ getters[g].pc = "reading"
    /\ Len(getters[g].copy) < 5
    /\ getters' = [getters EXCEPT
                    ![g].copy = Append(@, shared[ReturnOrder[Len(@) + 1]])]
    /\ UNCHANGED <<mu, shared, loadPc, published, notSnapshot>>

\* getConfig: the deferred RUnlock; the caller goes on with its five values
GetRUnlock(g) ==
    /\ getters[g].pc = "reading"
    /\ Len(getters[g].copy) = 5
    /\ mu' = [mu EXCEPT !.readers = @ \ {g}]
    /\ getters' = [getters EXCEPT ![g].pc = "exchanging"]
    /\ UNCHANGED <<shared, loadPc, published, notSnapshot>>

\* handleOutbound: the exchange with the values getConfig returned is over
ExchangeDone(g) ==
    /\ getters[g].pc = "exchanging"
    /\ getters' = [getters EXCEPT ![g] = [pc |-> "idle", copy |-> <<>>]]
    /\ UNCHANGED <<mu, shared, loadPc, published, notSnapshot>>

SnapshotNext ==
    \/ LoadLock
    \/ LoadWrite
    \/ LoadUnlock
    \/ \E g \in Getters : GetRLock(g)
    \/ \E g \in Getters : GetRead(g)
    \/ \E g \in Getters : GetRUnlock(g)
    \/ \E g \in Getters : ExchangeDone(g)

SpecSnapshot == SnapshotInit /\ [][SnapshotNext]_snapshotVars

(***************************************************************************)
(* The streams of one Filter process and the HTTP calls made for them      *)
(* (go-processor/main.go): each stream has its goroutine in Process, which *)
(* blocks in http.PostForm or in jwksCache.Get until the identity provider *)
(* answers or the connection fails.  Neither call takes the stream's       *)
(* context, and neither has a deadline of its own.                         *)
(***************************************************************************)
Streams == 1..MaxStreams

CallsInit ==
    /\ FilterAbsent
    /\ InterceptorAbsent
    /\ ResolverAbsent
    /\ InjectorAbsent
    /\ SnapshotAbsent
    /\ LoaderAbsent
    /\ ctx = [s \in Streams |-> "open"]
    /\ task = [s \in Streams |-> "recv"]
    /\ call = [s \in Streams |-> "none"]
    /\ replies = [s \in Streams |-> 0]

notCalls == <<vars, streamVars, netVars, resolverVars, injectorVars, snapshotVars, loaderVars>>

\* what a RequestHeaders message makes its handler do: handleOutbound with
\* a complete configuration and a bearer token calls exchangeToken,
\* handleInbound with a bearer token calls validateInboundJWT, which asks
\* the cache for the key set; every other message is answered at once
CallFor == [exchangeToken |-> "exchange", validateInboundJWT |-> "jwks", none |-> "send"]

\* stream.Recv() returns a message with its header map
Recv(s) ==
    /\ task[s] = "recv"
    /\ ctx[s] = "open"
    /\ replies[s] < MaxMsgs
    /\ \E needs \in DOMAIN CallFor :
        /\ task' = [task EXCEPT ![s] = CallFor[needs]]
        /\ call' = [call EXCEPT ![s] = IF needs = "none" THEN "none" ELSE "inflight"]
    /\ UNCHANGED <<ctx, replies, notCalls>>

\* stream.Recv() returns a RequestHeaders message without header map:
\* headers.Headers dereferences nil, the goroutine panics, and a panic no
\* one recovers ends the process with all its streams
RecvNilHeaders(s) ==
    /\ task[s] = "recv"
    /\ ctx[s] = "open"
    /\ replies[s] < MaxMsgs
    /\ task' = [t \in Streams |-> "crashed"]
    /\ call' = [t \in Streams |-> "none"]
    /\ UNCHANGED <<ctx, replies, notCalls>>

\* the proxy closes the stream: its context is cancelled
Cancel(s) ==
    /\ ctx[s] = "open"
    /\ task[s] # "crashed"
    /\ ctx' = [ctx EXCEPT ![s] = "cancelled"]
    /\ UNCHANGED <<task, call, replies, notCalls>>

\* the loop sees ctx.Done(), or stream.Recv() fails on the closed stream
Return(s) ==
    /\ task[s] = "recv"
    /\ ctx[s] = "cancelled"
    /\ task' = [task EXCEPT ![s] = "returned"]
    /\ UNCHANGED <<ctx, call, replies, notCalls>>

\* the identity provider answers, or the connection fails
IdPReplies(s) ==
    /\ call[s] = "inflight"
    /\ \E outcome \in {"result", "error"} : call' = [call EXCEPT ![s] = outcome]
    /\ UNCHANGED <<ctx, task, replies, notCalls>>

\* http.PostForm or jwksCache.Get returns; the handler builds its response
CallReturns(s) ==
    /\ task[s] \in {"exchange", "jwks"}
    /\ call[s] \in {"result", "error"}
    /\ task' = [task EXCEPT ![s] = "send"]
    /\ call' = [call EXCEPT ![s] = "none"]
    /\ UNCHANGED <<ctx, replies, notCalls>>

\* stream.Send(resp): on a closed stream it fails and Process returns
Send(s) ==
    /\ task[s] = "send"
    /\ IF ctx[s] = "open"
       THEN /\ task' = [task EXCEPT ![s] = "recv"]
            /\ replies' = [replies EXCEPT ![s] = @ + 1]
       ELSE /\ task' = [task EXCEPT ![s] = "returned"]
            /\ UNCHANGED replies
    /\ UNCHANGED <<ctx, call, notCalls>>

\* the steps the goroutine of a stream takes by itself
Goroutine(s) == Return(s) \/ CallReturns(s) \/ Send(s)

CallsNext ==
    \/ \E s \in Streams : Recv(s)
    \/ \E s \in Streams : RecvNilHeaders(s)
    \/ \E s \in Streams : Cancel(s)
    \/ \E s \in Streams : IdPReplies(s)
    \/ \E s \in Streams : Goroutine(s)

\* the Go scheduler runs every goroutine that can run; the proxy and the
\* identity provider are under no obligation
SpecCalls ==
    /\ CallsInit
    /\ [][CallsNext]_callVars
    /\ \A s \in Streams : WF_callVars(Goroutine(s))

(***************************************************************************)
(* The webhook's ConfigLoader (kagenti-webhook/internal/webhook/config/    *)
(* loader.go): Watch re-arms a one-second timer at every change of the     *)
(* config directory; the timer runs Load in a goroutine of its own, and    *)
(* Load reads the file before it takes the lock to store what it read.     *)
(* The file is known by the number of changes it has seen.                 *)
(***************************************************************************)
CompiledDefaults == [source |-> "compiled-defaults", version |-> 0]

\* what Load makes of the bytes it read: the defaults for a missing file,
\* the defaults overlaid with the file for valid YAML, an error otherwise
Parse(content) ==
    IF content.kind = "absent" THEN [config |-> CompiledDefaults, err |-> <<>>]
    ELSE IF content.kind = "invalid"
    THEN [config |-> CompiledDefaults, err |-> <<"yaml: unmarshal or validation error">>]
    ELSE [config |-> [source |-> "configmap", version |-> content.version], err |-> <<>>]

\* ConfigLoader.Get: a copy of the current config
Get == currentConfig

NotRead == <<>>

LoaderInit ==
    /\ FilterAbsent
    /\ InterceptorAbsent
    /\ ResolverAbsent
    /\ InjectorAbsent
    /\ CallsAbsent
    /\ SnapshotAbsent
    /\ configFile \in {[version |-> 0, kind |-> k] : k \in {"valid", "absent"}}
    /\ debounceTimer = "nil"
    /\ loads = {}
    /\ currentConfig = Parse(configFile).config

notLoader == <<vars, streamVars, netVars, resolverVars, injectorVars, callVars, snapshotVars>>

\* the ConfigMap volume is updated and the watcher receives the event: it
\* stops the timer, if any, and arms a new one
Change ==
    /\ configFile.version < MaxChanges
    /\ \E k \in {"valid", "invalid", "absent"} :
        configFile' = [version |-> configFile.version + 1, kind |-> k]
    /\ debounceTimer' = "armed"
    /\ UNCHANGED <<loads, currentConfig, notLoader>>

\* the timer fires: time.AfterFunc starts its function in a new goroutine
TimerFires ==
    /\ debounceTimer = "armed"
    /\ debounceTimer' = "fired"
    /\ loads' = loads \cup {[content |-> NotRead]}
    /\ UNCHANGED <<configFile, currentConfig, notLoader>>

\* Load: os.ReadFile(l.configPath)
LoadRead ==
    /\ [content |-> NotRead] \in loads
    /\ loads' = (loads \ {[content |-> NotRead]}) \cup {[content |-> <<configFile>>]}
    /\ UNCHANGED <<configFile, debounceTimer, currentConfig, notLoader>>

\* Load: the rest of it, l.currentConfig = config under the lock unless the
\* content was refused
LoadStore ==
    /\ \E l \in loads :
        /\ l.content # NotRead
        /\ loads' = loads \ {l}
        /\ currentConfig' = IF Parse(l.content[1]).err = <<>>
                            THEN Parse(l.content[1]).config
                            ELSE currentConfig
    /\ UNCHANGED <<configFile, debounceTimer, notLoader>>

LoaderNext ==
    \/ Change
    \/ TimerFires
    \/ LoadRead
    \/ LoadStore

SpecLoader == LoaderInit /\ [][LoaderNext]_loaderVars

(***************************************************************************)
(* Vocabulary of the properties: read off the request, the environment's   *)
(* answers and the response, not off the handlers                          *)
(***************************************************************************)
Range(seq) == {seq[i] : i \in 1..Len(seq)}

\* the value of the first header named `name`, names compared without case
FirstValue(headers, name) ==
    LET hits == {i \in 1..Len(headers) : EqualFold(headers[i].Key, name)} IN
    IF hits = {} THEN <<>>
    ELSE headers[CHOOSE i \in hits : \A j \in hits : i <= j].RawValue

Answered == pc = "sent"
IsRequestHeaders == Answered /\ req.type = "RequestHeaders" /\ req.hasHeaders
MarkedInbound == IsRequestHeaders /\ FirstValue(req.headers, DirectionHeader) = InboundValue
MarkedOutbound == IsRequestHeaders /\ FirstValue(req.headers, DirectionHeader) # InboundValue

\* inbound policy is configured
PolicyConfigured == inboundIssuer # "" /\ ~jwksCache.isNil

Forwarded == resp.kind = "RequestHeaders"
Denied401 == resp.kind = "ImmediateResponse" /\ resp.status = 401
EmptyMutation == Forwarded /\ resp.setHeaders = <<>> /\ resp.removeHeaders = <<>>

AuthValue == FirstValue(req.headers, AuthorizationHeader)

\* the Authorization value uses the Bearer scheme
BearerScheme(auth) ==
    /\ Len(auth) >= Len(BearerPrefix)
    /\ EqualFold(SubSeq(auth, 1, Len(BearerPrefix)), BearerPrefix)

\* the JWTs a Bearer Authorization value ends in
CarriedJWTs(auth) ==
    {t \in JWTs : /\ BearerScheme(auth)
                  /\ Len(auth) > Len(BearerPrefix)
                  /\ auth[Len(auth)] = t.raw}

SignatureVerifies(t, keys) == t.signer \in keys
IssuerMatches(t) == t.iss = inboundIssuer
AudienceMatches(t) == expectedAudience = "" \/ expectedAudience \in Range(t.aud)

\* C1: while inbound policy is configured, an inbound request is forwarded
\* only if it carries a Bearer token whose signature verifies against the
\* key set the cache returned, whose iss equals the expected issuer and
\* whose aud contains the expected audience when one is expected.
C1_AdmitOnlyVerifiedBearer ==
    (MarkedInbound /\ PolicyConfigured /\ ~Denied401)
        => /\ fetch.attempted /\ fetch.err = <<>>
           /\ \E t \in CarriedJWTs(AuthValue) :
                /\ SignatureVerifies(t, fetch.keys)
                /\ IssuerMatches(t)
                /\ AudienceMatches(t)

C1_Witness ==
    /\ MarkedInbound /\ PolicyConfigured /\ Forwarded
    /\ expectedAudience = AudA
    /\ AuthValue = BearerPrefix \o <<"jwt.multiaud">>

\* the reasons for which inbound validation denies
MissingAuthorization == AuthValue = <<>>
NonBearerFormat == AuthValue # <<>> /\ ~BearerScheme(AuthValue)
KeyFetchFailure == fetch.attempted /\ fetch.err # <<>>
InvalidSignature ==
    /\ fetch.attempted /\ fetch.err = <<>>
    /\ ~\E t \in CarriedJWTs(AuthValue) : SignatureVerifies(t, fetch.keys)
WrongIssuer == \E t \in CarriedJWTs(AuthValue) : ~IssuerMatches(t)
WrongAudience == \E t \in CarriedJWTs(AuthValue) : ~AudienceMatches(t)

\* C2: an inbound request that fails validation for any of the listed
\* reasons is answered with an immediate response of status 401 and never
\* with a forwarding RequestHeaders response.
C2_DeniedGets401 ==
    (/\ MarkedInbound /\ PolicyConfigured
     /\ \/ MissingAuthorization
        \/ NonBearerFormat
        \/ KeyFetchFailure
        \/ InvalidSignature
        \/ WrongIssuer
        \/ WrongAudience)
        => /\ resp.kind = "ImmediateResponse"
           /\ resp.status = 401
           /\ resp.kind # "RequestHeaders"

C2_Witness ==
    /\ MarkedInbound /\ PolicyConfigured
    /\ WrongIssuer /\ ~WrongAudience /\ ~InvalidSignature /\ ~KeyFetchFailure
    /\ fetch.attempted
    /\ Denied401

\* C3: an outbound RequestHeaders is always answered with a RequestHeaders
\* response, never with an immediate response, whatever the configuration
\* and whatever the token endpoint did.
C3_OutboundNeverDenied ==
    MarkedOutbound => /\ resp.kind = "RequestHeaders"
                      /\ resp.kind # "ImmediateResponse"

C3_Witness ==
    /\ MarkedOutbound
    /\ exchange.attempted /\ exchange.reply.kind = "neterr"
    /\ Forwarded

\* C4: when inbound policy is unconfigured, an inbound request is passed
\* through with a response that removes the direction marker header.
C4_UnconfiguredStripsMarker ==
    (MarkedInbound /\ ~PolicyConfigured)
        => /\ Forwarded
           /\ DirectionHeader \in Range(resp.removeHeaders)

\* C5: an inbound request admitted after validation gets a header mutation
\* that removes the direction marker and touches no other header.
C5_AdmitRemovesOnlyMarker ==
    (MarkedInbound /\ PolicyConfigured /\ Forwarded)
        => /\ resp.removeHeaders = <<DirectionHeader>>
           /\ resp.setHeaders = <<>>

C5_Witness ==
    /\ MarkedInbound /\ PolicyConfigured /\ Forwarded
    /\ fetch.attempted /\ fetch.err = <<>>
    /\ Len(req.headers) >= 3

\* TOKEN_URL and ISSUER are both set
InboundConfigured == globalConfig.TokenURL # <<>> /\ inboundIssuer # ""

\* C6: with TOKEN_URL and ISSUER configured, a failure to obtain keys from
\* the cache (failed first fetch, or a URL whose registration failed at
\* startup) denies the inbound request with 401, and no inbound request is
\* forwarded unless keys were obtained for it.
C6_InboundFailsClosed ==
    (MarkedInbound /\ InboundConfigured)
        => /\ KeyFetchFailure => Denied401
           /\ inboundJWKSURL \notin jwksCache.registered => Denied401
           /\ Forwarded => (fetch.attempted /\ fetch.err = <<>> /\ fetch.keys # {})

C6_Witness ==
    /\ MarkedInbound /\ InboundConfigured
    /\ inboundJWKSURL \notin jwksCache.registered
    /\ fetch.err = ErrNotRegistered(inboundJWKSURL)
    /\ Denied401

\* the token endpoint answered 200 with a JSON body holding a non-empty
\* access_token
EndpointSuccess ==
    /\ exchange.attempted
    /\ exchange.reply.kind = "response"
    /\ exchange.reply.status = 200
    /\ exchange.reply.body.syntax = "object"
    /\ exchange.reply.body.field = "string"
    /\ exchange.reply.body.value # <<>>

AuthorizationRewritten ==
    \E i \in 1..Len(resp.setHeaders) :
        EqualFold(resp.setHeaders[i].Key, AuthorizationHeader)

\* C7: the Authorization header of an outbound request is rewritten exactly
\* when the token endpoint answered 200 with a JSON body holding a non-empty
\* access_token, and the new value is "Bearer " followed by that token.
C7_RewriteIffNonEmptyToken ==
    MarkedOutbound
        => /\ AuthorizationRewritten <=> EndpointSuccess
           /\ AuthorizationRewritten
                => /\ resp.setHeaders =
                        <<[Key |-> AuthorizationHeader,
                           RawValue |-> BearerPrefix \o exchange.reply.body.value]>>
                   /\ Len(resp.setHeaders[1].RawValue) > Len(BearerPrefix)

\* some exchange parameter is empty
ConfigIncomplete ==
    \/ globalConfig.ClientID = <<>>
    \/ globalConfig.ClientSecret = <<>>
    \/ globalConfig.TokenURL = <<>>
    \/ globalConfig.TargetAudience = ""
    \/ globalConfig.TargetScopes = ""

\* C8: with an incomplete Exchange Config Snapshot no token exchange is
\* attempted for an outbound request and the header mutation is empty.
C8_IncompleteConfigPassthrough ==
    (MarkedOutbound /\ ConfigIncomplete)
        => /\ ~exchange.attempted
           /\ EmptyMutation

C8_Witness ==
    /\ MarkedOutbound
    /\ globalConfig.TargetScopes = ""
    /\ globalConfig.ClientID # <<>> /\ globalConfig.ClientSecret # <<>>
    /\ globalConfig.TokenURL # <<>> /\ globalConfig.TargetAudience # ""
    /\ AuthValue = BearerPrefix \o <<"jwt.ok">>
    /\ EmptyMutation

\* the attempted exchange failed: network error, non-2xx status or a body
\* that is not JSON
ExchangeFailed ==
    /\ exchange.attempted
    /\ \/ exchange.reply.kind \in {"neterr", "readerr"}
       \/ exchange.reply.kind = "response" /\ exchange.reply.status \notin 200..299
       \/ exchange.reply.kind = "response" /\ exchange.reply.body.syntax = "invalid"

\* C9: when an attempted token exchange fails, the header mutation is empty
\* and the request is not denied.
C9_ExchangeFailurePassthrough ==
    (MarkedOutbound /\ ExchangeFailed)
        => /\ EmptyMutation
           /\ resp.kind # "ImmediateResponse"

C9_Witness ==
    /\ MarkedOutbound /\ ExchangeFailed
    /\ exchange.reply.kind = "response" /\ exchange.reply.status = 400
    /\ exchange.reply.body.field = "string" /\ exchange.reply.body.value # <<>>
    /\ EmptyMutation

\* C10: a RequestHeaders message goes to inbound validation exactly when its
\* direction marker (name compared without case) has the value "inbound";
\* with the marker absent or of any other value it goes to outbound exchange.
C10_DirectionClassification ==
    IsRequestHeaders
        => /\ handler = "handleInbound"
                <=> FirstValue(req.headers, DirectionHeader) = InboundValue
           /\ handler = "handleOutbound"
                <=> FirstValue(req.headers, DirectionHeader) # InboundValue

C10_Witness ==
    /\ IsRequestHeaders
    /\ handler = "handleInbound"
    /\ \E i \in 1..Len(req.headers) : req.headers[i].Key = DirectionHeaderCaps

\* C12: every request other than RequestHeaders is answered with an empty
\* response of the kind that matches the request, carrying no mutation.
C12_OtherRequestsEchoedEmpty ==
    (Answered /\ req.type # "RequestHeaders")
        => /\ resp.kind = req.type
           /\ resp.setHeaders = <<>> /\ resp.removeHeaders = <<>>
           /\ resp.body = <<>>

\* A reader of JSON texts made of chunks: the end of the string literal
\* whose opening quote is just before s[i] (the index after its closing
\* quote), 0 when the text ends first
RECURSIVE StringEnd(_, _)
StringEnd(s, i) ==
    IF i > Len(s) THEN 0
    ELSE IF s[i] = Quote THEN i + 1
    ELSE StringEnd(s, i + 1)

JSONString(s, i) == IF i <= Len(s) /\ s[i] = Quote THEN StringEnd(s, i + 1) ELSE 0

NotJSON == [ok |-> FALSE, fields |-> {}]

\* the members "key":"value" of an object from s[i] up to the closing brace
\* that ends the text
RECURSIVE JSONMembers(_, _)
JSONMembers(s, i) ==
    LET k == JSONString(s, i) IN
    IF k = 0 \/ k > Len(s) \/ s[k] # ":" THEN NotJSON
    ELSE
    LET v == JSONString(s, k + 1) IN
    IF v = 0 \/ v > Len(s) THEN NotJSON
    ELSE
    LET member == [key |-> SubSeq(s, i + 1, k - 2), value |-> SubSeq(s, k + 2, v - 2)] IN
    IF s[v] = "}" /\ v = Len(s) THEN [ok |-> TRUE, fields |-> {member}]
    ELSE IF s[v] = ","
    THEN LET rest == JSONMembers(s, v + 1) IN
         IF rest.ok THEN [ok |-> TRUE, fields |-> {member} \cup rest.fields] ELSE NotJSON
    ELSE NotJSON

JSONObject(s) == IF s # <<>> /\ s[1] = "{" THEN JSONMembers(s, 2) ELSE NotJSON

\* the text parses as {"error":"unauthorized","message":<string>}
ParsesAsDenial(s) ==
    LET o == JSONObject(s) IN
    /\ o.ok
    /\ \E m \in o.fields :
        /\ m.key = <<"message">>
        /\ o.fields = {[key |-> <<"error">>, value |-> <<"unauthorized">>], m}

\* C13: the body of every inbound denial parses as a JSON object of the shape
\* {"error":"unauthorized","message":<string>}, whatever the message.
C13_DenialBodyIsJSON ==
    (MarkedInbound /\ resp.kind = "ImmediateResponse") => ParsesAsDenial(resp.body)

\* the denials whose message is one of the two fixed texts do parse
C13_FixedMessagesParse ==
    (MarkedInbound /\ resp.kind = "ImmediateResponse" /\ ~fetch.attempted /\ ~jwksCache.isNil)
        => ParsesAsDenial(resp.body)

Installed == line.state = "exit 0"
Traversed == pkt # NoPkt
LocalTCP == Traversed /\ pkt.hook = "OUTPUT" /\ pkt.proto = "tcp"
FromProxy == pkt.uid = PROXY_UID
ToLocal == pkt.dst \in LocalAddrs

\* redirected by one of the Interceptor's own chains
RedirectedByInterceptor ==
    verdict.action = "REDIRECT" /\ verdict.by \in {"PROXY_OUTPUT", "PROXY_INBOUND"}

OwnChainOf(parent) == IF parent = "OUTPUT" THEN "PROXY_OUTPUT" ELSE "PROXY_INBOUND"

\* positions of the jumps to `chain` in the parent chain
JumpsTo(parent, chain) ==
    {i \in 1..Len(nat[parent]) : nat[parent][i].target = chain}

\* C14: a later run that exits 0 leaves exactly the rules the first run left,
\* in the nat chains, the parent-chain jumps and the mangle table.
C14_RerunSameRuleSet ==
    (Installed /\ firstRun.taken) => OwnRules(nat, mangle) = firstRun.rules

\* the nat half of it: chains and jumps are as the first run left them,
\* when the run's flushes succeeded
C14_NatRulesStable ==
    (Installed /\ firstRun.taken /\ "-F" \notin line.ignored)
        => OwnRules(nat, mangle).nat = firstRun.rules.nat

\* C15: in each parent chain, once the Interceptor's jump and the peer mesh's
\* jump are both installed, the Interceptor's is the only rule at position 1
\* and the peer's come after it, whichever was installed first.
C15_InterceptorJumpFirst ==
    \A parent \in {"OUTPUT", "PREROUTING"} :
        (JumpsTo(parent, OwnChainOf(parent)) # {} /\ parent \in peer)
            => /\ JumpsTo(parent, OwnChainOf(parent)) = {1}
               /\ \A i \in JumpsTo(parent, PeerChainOf(parent)) : i > 1

C15_Witness ==
    /\ Installed /\ peer = {"OUTPUT", "PREROUTING"}
    /\ JumpsTo("OUTPUT", "ISTIO_OUTPUT") = {2}
    /\ JumpsTo("PREROUTING", "ISTIO_PRERT") = {2}

\* C16: no TCP packet of the proxy's own user id is redirected by the
\* Interceptor's outbound chain.
C16_ProxyNeverRedirected ==
    (LocalTCP /\ FromProxy) => ~RedirectedByInterceptor

C16_Witness ==
    /\ LocalTCP /\ FromProxy
    /\ pkt.dst = RemoteIP /\ pkt.mark = 0
    /\ verdict.by = "ISTIO_OUTPUT" /\ verdict.to = ZTUNNEL_OUTBOUND_PORT

\* C17: a TCP packet from the proxy to a local destination carries the peer
\* mark when the nat hook evaluates it and is redirected by no chain.
C17_ProxyToLocalMarkedNotRedirected ==
    (LocalTCP /\ FromProxy /\ ToLocal)
        => /\ HasMark(verdict.mark)
           /\ verdict.action # "REDIRECT"

C17_Witness ==
    /\ LocalTCP /\ FromProxy /\ ToLocal
    /\ pkt.mark = 0 /\ pkt.dst = PodIP /\ pkt.dport = 8080
    /\ "OUTPUT" \in peer
    /\ verdict.action = "ACCEPT"

\* C18: a locally-originated TCP packet with the peer mark, not of the proxy's
\* uid and to a local destination is redirected to the Inbound Listener Port,
\* by the first rule of the Interceptor's outbound chain.
C18_PeerDeliveredInboundRedirected ==
    (LocalTCP /\ HasMark(pkt.mark) /\ ~FromProxy /\ ToLocal)
        => /\ verdict.action = "REDIRECT" /\ verdict.to = INBOUND_PROXY_PORT
           /\ verdict.by = "PROXY_OUTPUT" /\ verdict.rule = 1

C18_Witness ==
    /\ LocalTCP /\ HasMark(pkt.mark) /\ ~FromProxy /\ ToLocal
    /\ pkt.dst = PodIP /\ pkt.dport = 8080
    /\ "OUTPUT" \in peer
    /\ verdict.to = INBOUND_PROXY_PORT

\* C19: a packet that carries the peer mark at the nat hook and is not
\* peer-delivered inbound leaves the Interceptor's outbound chain without
\* being redirected.
C19_OtherMarkedTrafficReturns ==
    (/\ Traversed /\ pkt.hook = "OUTPUT"
     /\ HasMark(verdict.mark)
     /\ ~(pkt.proto = "tcp" /\ ~FromProxy /\ ToLocal))
        => ~RedirectedByInterceptor

C19_Witness ==
    /\ LocalTCP /\ HasMark(pkt.mark) /\ ~FromProxy
    /\ pkt.dst = RemoteIP /\ pkt.dport = ZTUNNEL_HBONE_PORT
    /\ verdict.action = "ACCEPT"

\* the ports of the exclude list that applies to the packet's direction
ExcludedPorts ==
    IF pkt.hook = "OUTPUT"
    THEN Range(scriptEnv.OUTBOUND_PORTS_EXCLUDE)
    ELSE Range(scriptEnv.INBOUND_PORTS_EXCLUDE)

\* C20: TCP traffic to a listener port, to the SSH port, to a loopback
\* address or to an excluded port is never redirected by the Interceptor,
\* in either chain.
C20_ExemptNeverRedirected ==
    (/\ Traversed /\ pkt.proto = "tcp"
     /\ \/ pkt.dport \in {PROXY_PORT, INBOUND_PROXY_PORT}
        \/ pkt.dport = SSH_PORT
        \/ pkt.dst \in Loopback
        \/ pkt.dport \in ExcludedPorts)
        => ~RedirectedByInterceptor

\* a connection of the application: local, TCP, not of the proxy's uid and
\* without the peer mesh's mark
FromApplication == LocalTCP /\ ~FromProxy /\ ~HasMark(pkt.mark)

\* a TCP connection arriving from the network
Arriving == Traversed /\ pkt.hook = "PREROUTING" /\ pkt.proto = "tcp"

\* destinations exempt from outbound redirection: the listener ports, the
\* SSH port, loopback addresses, the caller's exclude list
OutboundExempt ==
    \/ pkt.dport \in {PROXY_PORT, INBOUND_PROXY_PORT, SSH_PORT}
    \/ pkt.dport \in Range(scriptEnv.OUTBOUND_PORTS_EXCLUDE)
    \/ pkt.dst \in Loopback

\* arriving connections exempt from inbound redirection: to the sidecar's
\* ports, the SSH port, the peer mesh's tunnel port, the caller's exclude
\* list, a loopback address, or from the peer mesh's health-probe source
InboundExempt ==
    \/ pkt.dport \in {PROXY_PORT, INBOUND_PROXY_PORT, EXT_PROC_PORT, ADMIN_PORT,
                      SSH_PORT, ZTUNNEL_HBONE_PORT}
    \/ pkt.dport \in Range(scriptEnv.INBOUND_PORTS_EXCLUDE)
    \/ pkt.dst \in Loopback
    \/ pkt.src = ISTIO_HEALTH_PROBE_SRC

C21_OutboundCase ==
    /\ FromApplication /\ ~OutboundExempt
    /\ pkt.dst = RemoteIP /\ pkt.dport = 443
    /\ "OUTPUT" \in peer /\ scriptEnv.OUTBOUND_PORTS_EXCLUDE # <<>>
    /\ verdict.to = PROXY_PORT

\* C22: the script exits 0 only when no command of the run has failed and
\* each of its chains holds exactly the rules of this run.
C22_FailureIsFatal ==
    Installed
        => /\ line.ignored = {}
           /\ nat["PROXY_OUTPUT"] = ProxyOutputRules(scriptEnv)
           /\ nat["PROXY_INBOUND"] = ProxyInboundRules(scriptEnv)

\* a failed command that is not followed by `|| true` does end the script:
\* after exit 0 every rule of the run is in its chain
C22_UnguardedFailureIsFatal ==
    Installed
        => /\ \A i \in 1..Len(ProxyOutputRules(scriptEnv)) :
                \E j \in 1..Len(nat["PROXY_OUTPUT"]) :
                    nat["PROXY_OUTPUT"][j] = ProxyOutputRules(scriptEnv)[i]
           /\ \A i \in 1..Len(ProxyInboundRules(scriptEnv)) :
                \E j \in 1..Len(nat["PROXY_INBOUND"]) :
                    nat["PROXY_INBOUND"][j] = ProxyInboundRules(scriptEnv)[i]
           /\ JumpsTo("OUTPUT", "PROXY_OUTPUT") # {}
           /\ JumpsTo("PREROUTING", "PROXY_INBOUND") # {}
           /\ mangle["OUTPUT"] # <<>>
           /\ route_localnet = 1

\* a run whose flush failed has exited 0 with the rules of the earlier run
\* still in front of its own
C22_StaleRulesCase ==
    /\ Installed /\ "-F" \in line.ignored
    /\ Len(nat["PROXY_OUTPUT"]) = 2 * Len(ProxyOutputRules(scriptEnv))

(***************************************************************************)
(* Vocabulary of the Resolver's properties                                 *)
(***************************************************************************)
Constructed == resolver # NotConstructed
Looked == resolved # NoLookup
NoMatch == [config |-> NilTargetConfig, err |-> <<>>]

\* the host without its port: host of host:port, addr of [addr]:port
BareHost(hostport) ==
    IF \E h \in HostNames \cup IPv6Addrs, p \in HostPorts : hostport = WithPort(h, p)
    THEN CHOOSE h \in HostNames \cup IPv6Addrs :
            \E p \in HostPorts : hostport = WithPort(h, p)
    ELSE hostport

\* the positions of the routes whose pattern matches h
MatchingRoutes(h) ==
    {i \in 1..Len(resolver.routes) : Match(resolver.routes[i].glob, h)}

\* the patterns of the resolver's routes, in order
RoutePatterns == [i \in 1..Len(resolver.routes) |-> resolver.routes[i].pattern]

SpecificExampleCom == <<"specific", ".">> \o ExampleCom
StarExampleCom == <<"*", ".">> \o ExampleCom
StarStarExampleCom == <<"*", "*", ".">> \o ExampleCom

\* C23: a lookup returns the configuration of the first route, in list
\* order, whose pattern matches the host, whatever later routes match: the
\* result reports passthrough when that route does, and the list
\* [*.example.com, specific.example.com] gives specific.example.com the
\* wildcard route.
C23_FirstMatchWins ==
    Looked =>
        /\ \A i \in MatchingRoutes(BareHost(host)) :
            (\A n \in MatchingRoutes(BareHost(host)) : i <= n) =>
                /\ resolved.err = <<>>
                /\ resolved.config = resolver.routes[i].config
                /\ resolved.config.Passthrough
                    = resolver.routes[i].config.Passthrough
        /\ (/\ RoutePatterns = <<StarExampleCom, SpecificExampleCom>>
            /\ host = SpecificExampleCom)
            => resolved.config = resolver.routes[1].config

C23_Witness ==
    /\ Looked
    /\ RoutePatterns = <<StarExampleCom, SpecificExampleCom>>
    /\ host = SpecificExampleCom
    /\ MatchingRoutes(host) = {1, 2}
    /\ resolver.routes[1].config.Passthrough
    /\ ~resolver.routes[2].config.Passthrough
    /\ resolved.config.Passthrough

\* C24: a lookup of host:port, or of [addr]:port for an IPv6 address, gives
\* what the lookup of the bare host or address gives, so that a route whose
\* pattern matches the host without its port is returned.
C24_PortStripped ==
    Looked =>
        \A h \in HostNames \cup IPv6Addrs, p \in HostPorts :
            host = WithPort(h, p) =>
                /\ resolved = Resolve(resolver, h)
                /\ MatchingRoutes(h) # {} =>
                    /\ resolved.config # NilTargetConfig
                    /\ \E i \in MatchingRoutes(h) :
                        resolved.config = resolver.routes[i].config

C24_Witness ==
    /\ Looked
    /\ host = <<"[", ":", ":", "1", "]", ":", "8080">>
    /\ RoutePatterns = <<SpecificExampleCom, <<":", ":", "1">>>>
    /\ resolved.config = resolver.routes[2].config
    /\ resolved.config.Audience = "svc-C"

C24_NameWitness ==
    /\ Looked
    /\ host = <<"api", ".", "internal", ":", "8080">>
    /\ RoutePatterns = <<<<"api", ".", "internal">>>>
    /\ resolved.config = resolver.routes[1].config

\* C25: a constructed resolver returns no error from a lookup; built from a
\* missing file it is constructed without error and finds no route for any
\* host; and a host no pattern matches gets a nil route and a nil error.
C25_LookupNeverErrs ==
    /\ (Constructed /\ ~configPath.exists) =>
        /\ resolver.err = <<>>
        /\ Looked => resolved = NoMatch
    /\ Looked =>
        /\ resolved.err = <<>>
        /\ MatchingRoutes(BareHost(host)) = {} => resolved = NoMatch

C25_Witness ==
    /\ Constructed
    /\ ~configPath.exists
    /\ Looked
    /\ host = <<"foo", ".">> \o ExampleCom
    /\ resolved = NoMatch

C25_NoPatternMatches ==
    /\ Looked
    /\ Len(resolver.routes) = 2
    /\ MatchingRoutes(BareHost(host)) = {}
    /\ resolved = NoMatch

\* the labels before the suffix .example.com, when h ends with it
BeforeExampleCom(h) == SubSeq(h, 1, Len(h) - Len(<<".">> \o ExampleCom))

\* C26: "*" matches within one dot-delimited label and "**" across labels:
\* *.example.com matches foo.example.com and neither a.b.example.com nor
\* example.com; **.example.com matches a.b.example.com and not example.com.
C26_StarWithinLabel ==
    (Looked /\ host \in HostNames) =>
        /\ RoutePatterns = <<StarExampleCom>> =>
            /\ resolved # NoMatch
                <=> /\ HasSuffix(host, <<".">> \o ExampleCom)
                    /\ IndexByte(BeforeExampleCom(host), ".") = 0
            /\ host = <<"foo", ".">> \o ExampleCom => resolved # NoMatch
            /\ host = <<"a", ".", "b", ".">> \o ExampleCom => resolved = NoMatch
            /\ host = ExampleCom => resolved = NoMatch
        /\ RoutePatterns = <<StarStarExampleCom>> =>
            /\ resolved # NoMatch <=> HasSuffix(host, <<".">> \o ExampleCom)
            /\ host = <<"a", ".", "b", ".">> \o ExampleCom => resolved # NoMatch
            /\ host = ExampleCom => resolved = NoMatch

C26_Witness ==
    /\ Looked
    /\ RoutePatterns = <<StarExampleCom>>
    /\ host = <<"a", ".", "b", ".">> \o ExampleCom
    /\ resolved = NoMatch

C26_AcrossLabels ==
    /\ Looked
    /\ RoutePatterns = <<StarStarExampleCom>>
    /\ host = <<"a", ".", "b", ".">> \o ExampleCom
    /\ resolved # NoMatch

\* the route list of the scenario: host api.internal, target audience svc-C
ApiInternalRoutes ==
    NewStaticResolver(
        [exists |-> TRUE, readable |-> TRUE, yaml |-> TRUE,
         routes |-> <<[Host |-> <<"api", ".", "internal">>,
                       TargetAudience |-> "svc-C", TokenScopes |-> <<>>,
                       TokenURL |-> <<>>, Passthrough |-> FALSE,
                       AuthorizationCheck |-> FALSE]>>])

\* C27: an outbound request whose destination host matches a route once its
\* port is stripped is exchanged with that route's target audience: with
\* the route api.internal -> svc-C, the exchange for a request to
\* api.internal:8443 posts audience svc-C.
C27_ExchangeUsesRouteAudience ==
    (MarkedOutbound /\ exchange.attempted) =>
        LET route == Resolve(ApiInternalRoutes, FirstValue(req.headers, <<"h", "o", "s", "t">>))
        IN  route.config # NilTargetConfig =>
                exchange.form.audience = route.config.Audience

\* what the exchange posts is the audience of the environment
C27_ExchangeUsesDefaultAudience ==
    (MarkedOutbound /\ exchange.attempted) =>
        exchange.form.audience = globalConfig.TargetAudience

\* the request of the scenario, exchanged with the default audience
C27_DefaultAudienceCase ==
    /\ MarkedOutbound
    /\ exchange.attempted
    /\ Resolve(ApiInternalRoutes,
               FirstValue(req.headers, <<"h", "o", "s", "t">>)).config.Audience = "svc-C"
    /\ exchange.form.audience = AudB

\* the denial of a value that is not in Bearer format
InvalidFormatDenial ==
    resp = denyRequest(<<"invalid Authorization header format">>)

\* C28: on inbound, a non-empty Authorization value is taken for token
\* extraction if and only if it begins with "Bearer " compared without
\* regard to case; every other non-empty value is denied with 401 and the
\* message "invalid Authorization header format".
C28_BearerPrefixCaseInsensitive ==
    (MarkedInbound /\ PolicyConfigured /\ AuthValue # <<>>) =>
        (InvalidFormatDenial <=> ~BearerScheme(AuthValue))

\* what the code takes: the values that begin with "Bearer " or "bearer "
C28_TwoSpellingsOnly ==
    (MarkedInbound /\ PolicyConfigured /\ AuthValue # <<>>) =>
        (InvalidFormatDenial
            <=> ~(HasPrefix(AuthValue, BearerPrefix) \/ HasPrefix(AuthValue, bearerPrefix)))

\* "BEARER <token>" denied for its format
C28_UpperCaseDeniedCase ==
    /\ MarkedInbound
    /\ PolicyConfigured
    /\ AuthValue = BEARERPrefix \o <<"jwt.ok">>
    /\ InvalidFormatDenial

\* the Authorization value is one handleInbound extracts a token from, and
\* the token is t
Extracted(t) ==
    /\ HasPrefix(AuthValue, BearerPrefix) \/ HasPrefix(AuthValue, bearerPrefix)
    /\ t \in CarriedJWTs(AuthValue)
    /\ Len(AuthValue) = Len(BearerPrefix) + 1

\* the denial says the audience is wrong
AudienceDenial ==
    /\ Denied401
    /\ \E i \in 1..Len(resp.body) : resp.body[i] = "invalid audience: expected "

\* C29: with an empty expected audience no inbound request is denied for
\* its token's aud claim: a Bearer token whose signature verifies against
\* the fetched keys, whose time claims hold and whose issuer matches is
\* admitted whatever its audience list holds.
C29_EmptyAudienceNotChecked ==
    (MarkedInbound /\ PolicyConfigured /\ expectedAudience = "") =>
        /\ ~AudienceDenial
        /\ \A t \in JWTs :
            (/\ Extracted(t)
             /\ fetch.attempted /\ fetch.err = <<>>
             /\ SignatureVerifies(t, fetch.keys)
             /\ t.timeValid
             /\ IssuerMatches(t)) => Forwarded

C29_Witness ==
    /\ MarkedInbound
    /\ PolicyConfigured
    /\ expectedAudience = ""
    /\ AuthValue \in {BearerPrefix \o <<"jwt.noaud">>, BearerPrefix \o <<"jwt.wrongaud">>}
    /\ fetch.attempted /\ fetch.err = <<>>
    /\ Forwarded

\* the cache holds a key set the identity provider has rotated away from
ServesOldKeys ==
    /\ ~jwksCache.isNil
    /\ jwksCache.keys # 0
    /\ jwksCache.keys # idpKey

\* an inbound request with an otherwise valid token signed with a rotated
\* key, checked against the key set the cache took after the rotation
RotatedKeyToken(t) ==
    /\ MarkedInbound
    /\ PolicyConfigured
    /\ Extracted(t)
    /\ t.signer > 1
    /\ fetch.attempted /\ fetch.err = <<>>
    /\ fetch.keys = {t.signer}
    /\ t.timeValid
    /\ IssuerMatches(t)
    /\ AudienceMatches(t)

C30_RefreshedCase ==
    /\ idpKey = 2
    /\ jwksCache.keys = 2
    /\ pc = "idle"
    /\ ~ServesOldKeys

(***************************************************************************)
(* Vocabulary of the injector's properties: read off the evaluator, the    *)
(* workload that was evaluated or admitted and the decision taken.         *)
(***************************************************************************)
Evaluated == mutation.applied = 0 /\ decision # NoDecision
Admitted == mutation.applied >= 1
NamespaceOptedIn == MapIndex(workload.namespace.Labels, LabelNamespaceInject) = "true"
WorkloadOptedOut(label) == MapIndex(workload.labels, label) = "false"
CROverride(sidecar) ==
    IF workload.overrides = NoOverrides THEN <<>> ELSE workload.overrides[sidecar]
PlatformDefault(sidecar) == evaluator.platformConfig.Sidecars[sidecar].Enabled
HigherLayersPass(sidecar, label) ==
    /\ evaluator.featureGates.GlobalEnabled
    /\ evaluator.featureGates[sidecar]
    /\ NamespaceOptedIn
    /\ ~WorkloadOptedOut(label)
ChainYields(sidecar, label) ==
    /\ HigherLayersPass(sidecar, label)
    /\ IF CROverride(sidecar) # <<>> THEN CROverride(sidecar)[1]
       ELSE PlatformDefault(sidecar)
LayeredDecision(sidecar, label) ==
    LET d == decision[sidecar]
    IN  /\ ~evaluator.featureGates.GlobalEnabled
            => ~d.Inject /\ d.Layer = "global-gate"
        /\ evaluator.featureGates.GlobalEnabled /\ ~evaluator.featureGates[sidecar]
            => ~d.Inject /\ d.Layer = "feature-gate"
        /\ ~NamespaceOptedIn => ~d.Inject
        /\ WorkloadOptedOut(label) => ~d.Inject
        /\ HigherLayersPass(sidecar, label) /\ CROverride(sidecar) # <<>>
            => d.Inject = CROverride(sidecar)[1] /\ d.Layer = "tokenexchange-cr"
        /\ HigherLayersPass(sidecar, label) /\ CROverride(sidecar) = <<>>
            => d.Inject = PlatformDefault(sidecar)

(* C31: the decision of Evaluate for a sidecar is taken by the first layer *)
(* that decides, in the order global gate, per-sidecar gate, namespace     *)
(* label, workload label, TokenExchange CR override, platform default: a   *)
(* no of a higher layer is never overridden by a lower one, and a CR       *)
(* override that is set wins over the platform default in both directions. *)
(* spiffe-helper has the same chain, with a no of its own on top.          *)
C31_FirstDecidingLayerWins ==
    Evaluated =>
        /\ LayeredDecision("EnvoyProxy", LabelEnvoyProxyInject)
        /\ LayeredDecision("ClientRegistration", LabelClientRegistrationInject)
        /\ ~ChainYields("SpiffeHelper", LabelSpiffeHelperInject)
            => ~decision.SpiffeHelper.Inject

C31_Witness ==
    /\ Evaluated
    /\ ~PlatformDefault("EnvoyProxy")
    /\ CROverride("EnvoyProxy") = <<TRUE>>
    /\ decision.EnvoyProxy.Inject
    /\ PlatformDefault("ClientRegistration")
    /\ CROverride("ClientRegistration") = <<FALSE>>
    /\ ~decision.ClientRegistration.Inject

(* C32: in every decision proxy-init is injected exactly when envoy-proxy  *)
(* is.                                                                     *)
C32_ProxyInitFollowsEnvoy ==
    decision # NoDecision => decision.ProxyInit.Inject = decision.EnvoyProxy.Inject

C32_Witness ==
    /\ Evaluated
    /\ ~decision.EnvoyProxy.Inject
    /\ ~decision.ProxyInit.Inject
    /\ decision.ClientRegistration.Inject

C32_InjectedCase ==
    /\ Admitted
    /\ decision # NoDecision
    /\ decision.EnvoyProxy.Inject
    /\ containerExists(podSpec.InitContainers, ProxyInitContainerName)

C33_InjectedCase ==
    /\ Evaluated
    /\ decision.SpiffeHelper.Inject
    /\ MapIndex(workload.labels, SpireEnableLabel) = SpireEnabledValue

InjectedContainerNames ==
    {EnvoyProxyContainerName, SpiffeHelperContainerName, ClientRegistrationContainerName}
OptedOutByPodLabel ==
    MapIndex(workload.labels, AuthBridgeInjectLabel) = AuthBridgeDisabledValue
Occurrences(list, name) == Cardinality({i \in 1..Len(list) : list[i].Name = name})

(* C34: a workload admitted by the AuthBridge webhook whose pod template   *)
(* carries kagenti.io/inject: disabled receives no injected sidecar, even  *)
(* if its namespace enables injection.                                     *)
C34_DisabledLabelNoSidecars ==
    Admitted /\ OptedOutByPodLabel =>
        /\ ~mutation.injected
        /\ \A name \in InjectedContainerNames : ~containerExists(podSpec.Containers, name)
        /\ ~containerExists(podSpec.InitContainers, ProxyInitContainerName)

(* C40: InjectAuthBridge applied again to a pod spec it has mutated, with  *)
(* the same labels, namespace and configuration, adds no container, init   *)
(* container or volume, and every injected name occurs exactly once.       *)
C40_SecondApplicationAddsNothing ==
    /\ [][mutation.applied >= 1 /\ mutation'.applied = mutation.applied + 1
            => podSpec' = podSpec]_injectorVars
    /\ [](Admitted /\ mutation.injected =>
            /\ \A name \in InjectedContainerNames :
                Occurrences(podSpec.Containers, name)
                    = IF decision[CHOOSE f \in {"EnvoyProxy", "SpiffeHelper",
                                                 "ClientRegistration"} :
                                    (f = "EnvoyProxy" /\ name = EnvoyProxyContainerName)
                                    \/ (f = "SpiffeHelper"
                                        /\ name = SpiffeHelperContainerName)
                                    \/ (f = "ClientRegistration"
                                        /\ name = ClientRegistrationContainerName)].Inject
                      THEN 1 ELSE 0
            /\ Occurrences(podSpec.InitContainers, ProxyInitContainerName)
                    = IF decision.ProxyInit.Inject THEN 1 ELSE 0
            /\ \A v \in 1..Len(podSpec.Volumes) :
                Occurrences(podSpec.Volumes, podSpec.Volumes[v].Name) = 1
            /\ Occurrences(podSpec.Volumes, "envoy-config") = 1)

C40_Witness ==
    /\ mutation.applied = 2
    /\ mutation.injected
    /\ IsSpireEnabled(workload.labels)
    /\ decision.EnvoyProxy.Inject
    /\ decision.SpiffeHelper.Inject
    /\ decision.ClientRegistration.Inject
    /\ Len(podSpec.Containers) = 4
    /\ Len(podSpec.Volumes) = 5

\* the five values a caller of getConfig holds, by field
CopyOf(g) == [f \in DOMAIN ZeroConfig |->
                getters[g].copy[CHOOSE i \in 1..5 : ReturnOrder[i] = f]]

(* C35: a caller of getConfig that runs while loadConfig writes holds all  *)
(* five fields as they stood at one Unlock, never a mixture of an old and  *)
(* a new load, and holds them as values: it has released the lock before   *)
(* the exchange and the exchange goes on while loadConfig holds the lock.  *)
C35_ReadersSeeOneSnapshot ==
    \A g \in Getters :
        /\ getters[g].pc = "exchanging" =>
            /\ CopyOf(g) \in published
            /\ g \notin mu.readers
        /\ getters[g].pc = "reading" /\ getters[g].copy # <<>> =>
            /\ ~mu.writer
            /\ \E p \in published :
                \A i \in 1..Len(getters[g].copy) : getters[g].copy[i] = p[ReturnOrder[i]]

C35_Witness ==
    /\ mu.writer
    /\ loadPc \in 2..5
    /\ shared \notin published
    /\ \E g, h \in Getters :
        /\ getters[g].pc = "exchanging"
        /\ getters[h].pc = "exchanging"
        /\ CopyOf(g) = ZeroConfig
        /\ CopyOf(h) # ZeroConfig

(* C36: when the proxy closes a stream, the handler of that stream ends    *)
(* and the token exchange or JWKS fetch in flight for it is cancelled: no  *)
(* task is left running for the closed stream.                             *)
C36_CancelStopsStreamTasks ==
    \A s \in Streams :
        (ctx[s] = "cancelled") ~> (task[s] \in {"returned", "crashed"} /\ call[s] = "none")

(* C37: every token exchange call and JWKS fetch on the request path ends  *)
(* with a result or an error after a finite time of its own, so that the   *)
(* message is answered even if the identity provider never responds.       *)
C37_CallsEndInFiniteTime ==
    \A s \in Streams :
        (task[s] \in {"exchange", "jwks"}) ~> (task[s] \notin {"exchange", "jwks"})

(* C38: a RequestHeaders message without header map does not crash the     *)
(* Filter: its stream is answered or ended with a status, and the other    *)
(* streams go on being served.                                             *)
C38_NilHeadersDoNotCrash ==
    \A s \in Streams : task[s] # "crashed"

\* the change events have stopped and every reload they started is over
Settled == debounceTimer # "armed" /\ loads = {}

(* C39: once the changes of the config file have stopped and the reloads   *)
(* are over, Get returns the config built from the latest content of the   *)
(* file, if that content is valid: a reload started by an earlier timer    *)
(* does not overwrite the result of a later one.                           *)
C39_LatestContentWins ==
    Settled /\ Parse(configFile).err = <<>> => Get = Parse(configFile).config

====
